---- MODULE Spec2Model ----
(***************************************************************************)
(* PACT compliance engine: the temporal graph store (app/core/store.py),   *)
(* the ingestion endpoint that drives it (app/api/v1/endpoints/ingest.py,  *)
(* pact_api.py), the history read paths (app/api/v1/endpoints/history.py)  *)
(* and the assessment engine (app/core/engine.py).                         *)
(*                                                                         *)
(* Spec       : the store under concurrent ingestion threads, one reader,  *)
(*              persistence failures, a process crash and a restart.       *)
(* SpecEngine : run_assessment as a step machine over bounded inputs.      *)
(***************************************************************************)
EXTENDS Integers, Sequences, FiniteSets, TLC

(***************************************************************************)
(* Bounds                                                                  *)
(***************************************************************************)
\* number of scan identifiers uuid4 can hand out before ingestion stops
MaxScans == 2
\* triples of a scan graph are drawn from 1..MaxTriple
MaxTriple == 2

\* ingestion worker threads (pact_api.py serves `def ingest_events` from a
\* thread pool) and the one reader
Threads == {"t1", "t2"}
Reader == "r"
Procs == Threads \cup {Reader}

ScanIds == 1..MaxScans
\* the default graph of the Dataset, which holds the global context
DefaultGraph == 0
\* the context loaded once by __init__ (framework and threat mappings)
ContextTriples == {0}
TripleIds == 1..MaxTriple
\* graphs run_assessment can return: non-empty sets of triples
GraphDataChoices == {1..k : k \in TripleIds}

NoFile == [exists |-> FALSE]
NoScan == 0
NoTime == 0
Free == "free"

VARIABLES
    ds,          \* PACTStore.ds: [graphs: registered named graphs, quads: <<graph, triple>>]
    lock,        \* PACTStore.lock: Free or the holder
    file,        \* the durable history file at storage_file
    tmp,         \* per thread: the file at temp_path of its save call
    pc,          \* per process: position in its handler
    scan_uri,    \* per thread: scan_uri returned by run_assessment
    graph_data,  \* per thread: graph_data returned by run_assessment
    todo,        \* per thread: triples the merge loop has not added yet
    obs,         \* the result a read path returned in the step into this state
    down,        \* the process has crashed and was not restarted yet
    issued,      \* history: scan ids handed out by uuid4
    scanData,    \* history: graph_data of every issued scan
    outcome,     \* per scan: the response of ingest_events for it
    fileAtMerge, \* history: per thread, the durable file when its merge began
    snap,        \* history: per thread, PACTStore.ds when its serialize began
    fileSnap,    \* history: PACTStore.ds when the serialize of the durable file began
    last_save    \* history: how the most recent call of save ended

storeVars == <<ds, lock, file, tmp, pc, scan_uri, graph_data, todo, obs, down,
               issued, scanData, outcome, fileAtMerge, snap, fileSnap, last_save>>

\* run_assessment (app/core/engine.py)
VARIABLES
    event_stream,     \* the batch of events of the call
    target_systems,   \* the system filter of the call ({} when None)
    target_frameworks,\* the framework filter of the call (<<>> when None)
    epc,              \* position in run_assessment
    idx,              \* index of the event loop
    data_graph,       \* the graph of the scan: a set of <<s, p, o>>
    evidence_tracker, \* one entry per mapped event
    results_graph,    \* the validator's report: a set of results
    item,             \* index of the assessment loop
    bnodes,           \* number of BNode() calls so far
    assessed,         \* history: <<assessment node, index in evidence_tracker>>
    seen,             \* history: <<content, Evidence node>> of every id-less event mapped
    scan_uuid,        \* the identifier uuid4 gave the scan
    timestamp_str     \* the time read when the scan began

engineVars == <<event_stream, target_systems, target_frameworks, epc, idx, data_graph,
                evidence_tracker, results_graph, item, bnodes, assessed, seen,
                scan_uuid, timestamp_str>>

\* ingest_events (app/api/v1/endpoints/ingest.py): one request
VARIABLES
    request,             \* the IngestRequest being handled, NoRequest when none
    ipc,                 \* position in ingest_events
    event_index,         \* index of the validation loop
    valid_events,        \* events that passed validate_event
    validation_warnings, \* indices of the events that failed it
    response,            \* HTTP status of the response, NoResponse when not sent
    calls,               \* history: run_assessment / add_graph called for the request
    before               \* history: the store and the file when the request arrived

ingestVars == <<request, ipc, event_index, valid_events, validation_warnings,
                response, calls, before>>

\* the read endpoints and the API key middleware, as functions of their input
VARIABLES
    call,   \* the input of the call, NoCall before it is made
    reply   \* what the call returned

apiVars == <<call, reply>>

vars == <<storeVars, engineVars, ingestVars, apiVars>>

(***************************************************************************)
(* Documents and datasets                                                  *)
(***************************************************************************)
\* the context parsed by _load_ttl_if_exists into the default graph
ContextQuads == {<<DefaultGraph, c>> : c \in ContextTriples}

EmptyDataset == [graphs |-> {}, quads |-> {}]

\* the triples of named graph g in a set of quads
GraphTriples(quads, g) == {q[2] : q \in {x \in quads : x[1] = g}}

\* named graphs that occur in a set of quads
GraphsOf(quads) == {q[1] : q \in {x \in quads : x[1] # DefaultGraph}}

\* order in which the serializer writes quads
QuadBefore(a, b) == a[1] < b[1] \/ (a[1] = b[1] /\ a[2] <= b[2])
NextQuad(S) == CHOOSE q \in S : \A q2 \in S : QuadBefore(q, q2)

\* Dataset.parse(storage_file, format='trig') followed by the two context
\* loads: graphs without triples are not in a TriG document. The parser adds
\* every statement to self.ds as it reads it; when it raises on a document
\* that is not complete, __init__ prints the error and keeps self.ds, with
\* the statements read before the error (the quads of such a file)
LoadStore(f) ==
    LET parsed == IF f.exists THEN f.quads ELSE {}
    IN  [graphs |-> GraphsOf(parsed), quads |-> parsed \cup ContextQuads]

\* a generator that can hand out an identifier again
uuid4_Reused(used) == ScanIds

\* uuid4: a value never handed out before
uuid4(used) == LET fresh == ScanIds \ used
               IN  {CHOOSE u \in fresh : \A v \in fresh : u <= v}

\* PACTStore.get_stats over a dataset
get_stats(d) == [total_triples |-> Cardinality(d.quads),
                 total_graphs  |-> Cardinality(d.graphs) + 1]

(***************************************************************************)
(* Init: PACTStore() constructed with no history file present              *)
(***************************************************************************)
NoObs == [kind |-> "none", graphs |-> {}, quads |-> {}]

StoreInit ==
    /\ ds = LoadStore(NoFile)
    /\ lock = Free
    /\ file = NoFile
    /\ tmp = [t \in Threads |-> NoFile]
    /\ pc = [p \in Procs |-> "idle"]
    /\ scan_uri = [t \in Threads |-> NoScan]
    /\ graph_data = [t \in Threads |-> {}]
    /\ todo = [t \in Threads |-> {}]
    /\ obs = NoObs
    /\ down = FALSE
    /\ issued = {}
    /\ scanData = [s \in ScanIds |-> {}]
    /\ outcome = [s \in ScanIds |-> "none"]
    /\ fileAtMerge = [t \in Threads |-> NoFile]
    /\ snap = [t \in Threads |-> EmptyDataset]
    /\ fileSnap = EmptyDataset
    /\ last_save = "none"

(***************************************************************************)
(* ingest_events: run_assessment, then db.add_graph                        *)
(***************************************************************************)
\* run_assessment returns (scan_uri, data_graph) under a new uuid4
IngestRunAssessment(t) ==
    /\ pc[t] = "idle"
    /\ issued # ScanIds
    /\ \E u \in uuid4(issued), g \in GraphDataChoices :
        /\ scan_uri' = [scan_uri EXCEPT ![t] = u]
        /\ graph_data' = [graph_data EXCEPT ![t] = g]
        /\ issued' = issued \cup {u}
        /\ scanData' = [scanData EXCEPT ![u] = g]
        /\ outcome' = [outcome EXCEPT ![u] = "pending"]
    /\ pc' = [pc EXCEPT ![t] = "add_graph"]
    /\ obs' = NoObs
    /\ UNCHANGED <<engineVars, ingestVars, apiVars, ds, lock, file, tmp, todo, down, fileAtMerge, snap,
                   fileSnap,
                   last_save>>

\* add_graph: `with self.lock:` and target_graph = self.ds.graph(URIRef(graph_uri))
AddGraphAcquire(t) ==
    /\ pc[t] = "add_graph"
    /\ lock = Free
    /\ lock' = t
    /\ ds' = [ds EXCEPT !.graphs = @ \cup {scan_uri[t]}]
    /\ todo' = [todo EXCEPT ![t] = graph_data[t]]
    /\ fileAtMerge' = [fileAtMerge EXCEPT ![t] = file]
    /\ pc' = [pc EXCEPT ![t] = "merging"]
    /\ obs' = NoObs
    /\ UNCHANGED <<engineVars, ingestVars, apiVars, file, tmp, scan_uri, graph_data, down, issued,
                   scanData, outcome, snap, fileSnap,
                   last_save>>

\* add_graph: one iteration of `for s, p, o in graph_data: target_graph.add(...)`
AddGraphAddTriple(t) ==
    /\ pc[t] = "merging"
    /\ \E tr \in todo[t] :
        /\ ds' = [ds EXCEPT !.quads = @ \cup {<<scan_uri[t], tr>>}]
        /\ todo' = [todo EXCEPT ![t] = @ \ {tr}]
    /\ obs' = NoObs
    /\ UNCHANGED <<engineVars, ingestVars, apiVars, lock, file, tmp, pc, scan_uri, graph_data, down,
                   issued, scanData, outcome, fileAtMerge, snap, fileSnap,
                   last_save>>

\* add_graph: the loop is over, the `with` block ends and the lock is released
\* before self.save() is called
AddGraphRelease(t) ==
    /\ pc[t] = "merging"
    /\ todo[t] = {}
    /\ lock' = Free
    /\ pc' = [pc EXCEPT ![t] = "save"]
    /\ obs' = NoObs
    /\ UNCHANGED <<engineVars, ingestVars, apiVars, ds, file, tmp, scan_uri, graph_data, todo, down,
                   issued, scanData, outcome, fileAtMerge, snap, fileSnap,
                   last_save>>

(***************************************************************************)
(* PACTStore.save                                                          *)
(***************************************************************************)
\* save: `with self.lock:`, tempfile.mkstemp creates an empty file, os.close
SaveAcquire(t) ==
    /\ pc[t] = "save"
    /\ lock = Free
    /\ lock' = t
    /\ tmp' = [tmp EXCEPT ![t] = [exists |-> TRUE, quads |-> {}, complete |-> FALSE]]
    /\ snap' = [snap EXCEPT ![t] = ds]
    /\ pc' = [pc EXCEPT ![t] = "serialize"]
    /\ obs' = NoObs
    /\ UNCHANGED <<engineVars, ingestVars, apiVars, ds, file, scan_uri, graph_data, todo, down, issued,
                   scanData, outcome, fileAtMerge, fileSnap,
                   last_save>>

\* save: mkstemp raises (before the try block): no temporary file, the lock
\* is released by the `with` and the exception leaves save
SaveMkstempFail(t) ==
    /\ pc[t] = "save"
    /\ lock = Free
    /\ pc' = [pc EXCEPT ![t] = "raised"]
    /\ obs' = NoObs
    /\ last_save' = "failed"
    /\ UNCHANGED <<engineVars, ingestVars, apiVars, ds, lock, file, tmp, scan_uri, graph_data, todo, down,
                   issued, scanData, outcome, fileAtMerge, snap, fileSnap>>

\* a save that serializes onto the history file itself
SaveSerialize_InPlace(t) ==
    /\ pc[t] = "serialize"
    /\ LET rest == ds.quads \ tmp[t].quads
       IN  IF rest # {}
           THEN /\ tmp' = [tmp EXCEPT ![t].quads = @ \cup {NextQuad(rest)}]
                /\ pc' = pc
           ELSE /\ tmp' = [tmp EXCEPT ![t].complete = TRUE]
                /\ pc' = [pc EXCEPT ![t] = "move"]
    /\ file' = tmp'[t]
    /\ obs' = NoObs
    /\ UNCHANGED <<engineVars, ingestVars, apiVars, ds, lock, scan_uri, graph_data, todo, down,
                   issued, scanData, outcome, fileAtMerge, snap, fileSnap,
                   last_save>>

\* save: self.ds.serialize(destination=temp_path) writes the next quad, and
\* closes the document when every quad of the store is written
SaveSerialize(t) ==
    /\ pc[t] = "serialize"
    /\ LET rest == ds.quads \ tmp[t].quads
       IN  IF rest # {}
           THEN /\ tmp' = [tmp EXCEPT ![t].quads = @ \cup {NextQuad(rest)}]
                /\ pc' = pc
           ELSE /\ tmp' = [tmp EXCEPT ![t].complete = TRUE]
                /\ pc' = [pc EXCEPT ![t] = "move"]
    /\ obs' = NoObs
    /\ UNCHANGED <<engineVars, ingestVars, apiVars, ds, lock, file, scan_uri, graph_data, todo, down,
                   issued, scanData, outcome, fileAtMerge, snap, fileSnap,
                   last_save>>

\* save: serialize raises (I/O error) at any point of the write
SaveSerializeFail(t) ==
    /\ pc[t] = "serialize"
    /\ pc' = [pc EXCEPT ![t] = "except"]
    /\ obs' = NoObs
    /\ UNCHANGED <<engineVars, ingestVars, apiVars, ds, lock, file, tmp, scan_uri, graph_data, todo, down,
                   issued, scanData, outcome, fileAtMerge, snap, fileSnap,
                   last_save>>

\* save: shutil.move(temp_path, self.storage_file) renames the temporary
\* file over the history file; the `with` block ends and save returns
SaveMove(t) ==
    /\ pc[t] = "move"
    /\ file' = tmp[t]
    /\ fileSnap' = snap[t]
    /\ tmp' = [tmp EXCEPT ![t] = NoFile]
    /\ lock' = Free
    /\ pc' = [pc EXCEPT ![t] = "returned"]
    /\ obs' = NoObs
    /\ last_save' = "succeeded"
    /\ UNCHANGED <<engineVars, ingestVars, apiVars, ds, scan_uri, graph_data, todo, down, issued,
                   scanData, outcome, fileAtMerge, snap>>

\* save: shutil.move raises, the history file is not replaced
SaveMoveFail(t) ==
    /\ pc[t] = "move"
    /\ pc' = [pc EXCEPT ![t] = "except"]
    /\ obs' = NoObs
    /\ UNCHANGED <<engineVars, ingestVars, apiVars, ds, lock, file, tmp, scan_uri, graph_data, todo, down,
                   issued, scanData, outcome, fileAtMerge, snap, fileSnap,
                   last_save>>

\* an exception path of save that leaves the lock held
SaveExcept_KeepLock(t) ==
    /\ pc[t] = "except"
    /\ tmp' = [tmp EXCEPT ![t] = NoFile]
    /\ pc' = [pc EXCEPT ![t] = "raised"]
    /\ obs' = NoObs
    /\ last_save' = "failed"
    /\ UNCHANGED <<engineVars, ingestVars, apiVars, ds, lock, file, scan_uri, graph_data,
                   todo, down, issued, scanData, outcome, fileAtMerge, snap, fileSnap>>

\* an exception path of save that swallows the exception: save returns
SaveExcept_Swallow(t) ==
    /\ pc[t] = "except"
    /\ tmp' = [tmp EXCEPT ![t] = NoFile]
    /\ lock' = Free
    /\ pc' = [pc EXCEPT ![t] = "returned"]
    /\ obs' = NoObs
    /\ last_save' = "failed"
    /\ UNCHANGED <<engineVars, ingestVars, apiVars, ds, file, scan_uri, graph_data, todo, down, issued,
                   scanData, outcome, fileAtMerge, snap, fileSnap>>

\* save: `except Exception:` removes the temporary file and re-raises; the
\* `with` releases the lock
SaveExcept(t) ==
    /\ pc[t] = "except"
    /\ tmp' = [tmp EXCEPT ![t] = NoFile]
    /\ lock' = Free
    /\ pc' = [pc EXCEPT ![t] = "raised"]
    /\ obs' = NoObs
    /\ last_save' = "failed"
    /\ UNCHANGED <<engineVars, ingestVars, apiVars, ds, file, scan_uri, graph_data, todo, down, issued,
                   scanData, outcome, fileAtMerge, snap, fileSnap>>

\* the locals of a finished request
EndRequest(t) ==
    /\ scan_uri' = [scan_uri EXCEPT ![t] = NoScan]
    /\ graph_data' = [graph_data EXCEPT ![t] = {}]
    /\ fileAtMerge' = [fileAtMerge EXCEPT ![t] = NoFile]
    /\ snap' = [snap EXCEPT ![t] = EmptyDataset]
    /\ pc' = [pc EXCEPT ![t] = "idle"]

\* ingest_events: add_graph returned, the response is status "success"
IngestSuccess(t) ==
    /\ pc[t] = "returned"
    /\ outcome' = [outcome EXCEPT ![scan_uri[t]] = "success"]
    /\ EndRequest(t)
    /\ obs' = NoObs
    /\ UNCHANGED <<engineVars, ingestVars, apiVars, ds, lock, file, tmp, todo, down, issued, scanData,
                   fileSnap,
                   last_save>>

\* ingest_events: `except Exception as e: raise HTTPException(500)`
IngestError(t) ==
    /\ pc[t] = "raised"
    /\ outcome' = [outcome EXCEPT ![scan_uri[t]] = "error"]
    /\ EndRequest(t)
    /\ obs' = NoObs
    /\ UNCHANGED <<engineVars, ingestVars, apiVars, ds, lock, file, tmp, todo, down, issued, scanData,
                   fileSnap,
                   last_save>>

(***************************************************************************)
(* Read paths                                                              *)
(***************************************************************************)
\* query: `with self.lock:`
QueryAcquire ==
    /\ pc[Reader] = "idle"
    /\ lock = Free
    /\ lock' = Reader
    /\ pc' = [pc EXCEPT ![Reader] = "query"]
    /\ obs' = NoObs
    /\ UNCHANGED <<engineVars, ingestVars, apiVars, ds, file, tmp, scan_uri, graph_data, todo, down,
                   issued, scanData, outcome, fileAtMerge, snap, fileSnap,
                   last_save>>

\* query: `return list(self.ds.query(sparql_query))`, the lock is released
QueryReturn ==
    /\ pc[Reader] = "query"
    /\ obs' = [kind |-> "query", graphs |-> ds.graphs, quads |-> ds.quads]
    /\ lock' = Free
    /\ pc' = [pc EXCEPT ![Reader] = "idle"]
    /\ UNCHANGED <<engineVars, ingestVars, apiVars, ds, file, tmp, scan_uri, graph_data, todo, down, issued,
                   scanData, outcome, fileAtMerge, snap, fileSnap,
                   last_save>>

\* get_stats: `with self.lock:`
StatsAcquire ==
    /\ pc[Reader] = "idle"
    /\ lock = Free
    /\ lock' = Reader
    /\ pc' = [pc EXCEPT ![Reader] = "get_stats"]
    /\ obs' = NoObs
    /\ UNCHANGED <<engineVars, ingestVars, apiVars, ds, file, tmp, scan_uri, graph_data, todo, down,
                   issued, scanData, outcome, fileAtMerge, snap, fileSnap,
                   last_save>>

\* get_stats: len(self.ds) and the graph count are read, the lock is released
StatsReturn ==
    /\ pc[Reader] = "get_stats"
    /\ obs' = [kind |-> "stats", graphs |-> ds.graphs, quads |-> ds.quads]
    /\ lock' = Free
    /\ pc' = [pc EXCEPT ![Reader] = "idle"]
    /\ UNCHANGED <<engineVars, ingestVars, apiVars, ds, file, tmp, scan_uri, graph_data, todo, down, issued,
                   scanData, outcome, fileAtMerge, snap, fileSnap,
                   last_save>>

\* query and get_stats with the call and the acquisition of the lock as two
\* steps, so that a reader waiting at `with self.lock:` is a state
QueryCall ==
    /\ pc[Reader] = "idle"
    /\ pc' = [pc EXCEPT ![Reader] = "query_wait"]
    /\ obs' = NoObs
    /\ UNCHANGED <<engineVars, ingestVars, apiVars, ds, lock, file, tmp, scan_uri,
                   graph_data, todo, down, issued, scanData, outcome, fileAtMerge, snap,
                   fileSnap,
                   last_save>>

QueryEnter ==
    /\ pc[Reader] = "query_wait"
    /\ lock = Free
    /\ lock' = Reader
    /\ pc' = [pc EXCEPT ![Reader] = "query"]
    /\ UNCHANGED <<engineVars, ingestVars, apiVars, ds, file, tmp, scan_uri, graph_data,
                   todo, obs, down, issued, scanData, outcome, fileAtMerge, snap, fileSnap,
                   last_save>>

StatsCall ==
    /\ pc[Reader] = "idle"
    /\ pc' = [pc EXCEPT ![Reader] = "get_stats_wait"]
    /\ obs' = NoObs
    /\ UNCHANGED <<engineVars, ingestVars, apiVars, ds, lock, file, tmp, scan_uri,
                   graph_data, todo, down, issued, scanData, outcome, fileAtMerge, snap,
                   fileSnap,
                   last_save>>

StatsEnter ==
    /\ pc[Reader] = "get_stats_wait"
    /\ lock = Free
    /\ lock' = Reader
    /\ pc' = [pc EXCEPT ![Reader] = "get_stats"]
    /\ UNCHANGED <<engineVars, ingestVars, apiVars, ds, file, tmp, scan_uri, graph_data,
                   todo, obs, down, issued, scanData, outcome, fileAtMerge, snap, fileSnap,
                   last_save>>

\* get_compliance_at_date / get_compliance_timeline: g = pact_store.ds and
\* g.query(query), without the lock
HistoryQuery ==
    /\ pc[Reader] = "idle"
    /\ obs' = [kind |-> "history", graphs |-> ds.graphs, quads |-> ds.quads]
    /\ UNCHANGED <<engineVars, ingestVars, apiVars, ds, lock, file, tmp, pc, scan_uri, graph_data, todo, down,
                   issued, scanData, outcome, fileAtMerge, snap, fileSnap,
                   last_save>>

(***************************************************************************)
(* Crash and restart                                                       *)
(***************************************************************************)
\* the process dies at any step: the store object, the lock and the locals of
\* every request are lost, the files stay as they are
Crash ==
    /\ ~down
    /\ down' = TRUE
    /\ ds' = EmptyDataset
    /\ lock' = Free
    /\ pc' = [p \in Procs |-> "dead"]
    /\ scan_uri' = [t \in Threads |-> NoScan]
    /\ graph_data' = [t \in Threads |-> {}]
    /\ todo' = [t \in Threads |-> {}]
    /\ obs' = NoObs
    /\ fileAtMerge' = [t \in Threads |-> NoFile]
    /\ snap' = [t \in Threads |-> EmptyDataset]
    /\ UNCHANGED <<engineVars, ingestVars, apiVars, file, tmp, issued, scanData, outcome, fileSnap,
                   last_save>>

\* PACTStore.__init__ at the next start: parse the history file if present,
\* then load the context. A temporary file left by the crash stays on disk
\* under a name no later mkstemp returns; no temp_path refers to it any more.
Restart ==
    /\ down
    /\ down' = FALSE
    /\ ds' = LoadStore(file)
    /\ lock' = Free
    /\ pc' = [p \in Procs |-> "idle"]
    /\ tmp' = [t \in Threads |-> NoFile]
    /\ UNCHANGED <<engineVars, ingestVars, apiVars, file, scan_uri, graph_data, todo, obs, issued,
                   scanData, outcome, fileAtMerge, snap, fileSnap,
                   last_save>>

(***************************************************************************)
(* Engine: strings, identifiers and digests (app/core/engine.py)           *)
(***************************************************************************)
\* number of digest values the model distinguishes
HashSpace == 251
\* events per batch
MaxBatch == 2
\* results in one validator report
MaxResults == 2

\* generate_safe_id: the longest id taken verbatim
MaxSafeIdLen == 128
\* hex digits kept of the event digest and of the id digest
AutoHexLen == 8
HashHexLen == 16

Letters == {"a","b","c","d","e","f","g","h","i","j","k","l","m","n","o","p","q",
            "r","s","t","u","v","w","x","y","z","A","B","C","D","E","F","G","H",
            "I","J","K","L","M","N","O","P","Q","R","S","T","U","V","W","X","Y","Z"}
Digits == {"0","1","2","3","4","5","6","7","8","9"}
HexDigits == <<"0","1","2","3","4","5","6","7","8","9","a","b","c","d","e","f">>

\* the class [A-Za-z0-9._-] of generate_safe_id
SafeIdChars == Letters \cup Digits \cup {".", "_", "-"}
\* the class [A-Za-z0-9_-] of resolve_system_uri
SafeNameChars == Letters \cup Digits \cup {"_", "-"}

\* str.lower() on the characters of a string
UpperCase == <<"A","B","C","D","E","F","G","H","I","J","K","L","M","N","O","P","Q",
               "R","S","T","U","V","W","X","Y","Z">>
LowerCase == <<"a","b","c","d","e","f","g","h","i","j","k","l","m","n","o","p","q",
               "r","s","t","u","v","w","x","y","z">>
lower(text) ==
    [i \in 1..Len(text) |->
        IF \E k \in 1..Len(UpperCase) : UpperCase[k] = text[i]
        THEN LowerCase[CHOOSE k \in 1..Len(UpperCase) : UpperCase[k] = text[i]]
        ELSE text[i]]

\* str.replace(old, ""): every occurrence of old is removed, left to right
RECURSIVE remove(_, _)
remove(text, old) ==
    IF Len(text) < Len(old) \/ old = <<>> THEN text
    ELSE IF SubSeq(text, 1, Len(old)) = old
         THEN remove(SubSeq(text, Len(old) + 1, Len(text)), old)
         ELSE <<text[1]>> \o remove(Tail(text), old)

\* `inner in outer` on strings
contains(outer, inner) ==
    \E i \in 0..(Len(outer) - Len(inner)) : SubSeq(outer, i + 1, i + Len(inner)) = inner

\* the tokens a serialized event or an id is made of, with their codes
Vocabulary == <<"id", "system", "type", "user", "file_access",
                "network_connection", "custom", "root", "alice",
                "a", "e", "1", "/", "H", "R", "P", "y", " ">>
Code(tok) == CHOOSE i \in 1..Len(Vocabulary) : Vocabulary[i] = tok

\* hashlib.sha256(text).hexdigest(), as a digest over the tokens of the text
\* (an order-sensitive fold of the token codes, halving the text)
RECURSIVE DigestOf(_, _, _)
DigestOf(text, lo, hi) ==
    IF lo > hi THEN 7
    ELSE IF lo = hi THEN (Code(text[lo]) * 31 + lo) % HashSpace
    ELSE LET mid == (lo + hi) \div 2
         IN  (DigestOf(text, lo, mid) * 31 + DigestOf(text, mid + 1, hi) * 17 + 1) % HashSpace
Digest(text) == DigestOf(text, 1, Len(text))

\* the first n hex digits of a digest
HexDigit(h, k) == IF k > 6 THEN 0 ELSE (h \div (16 ^ k)) % 16
Hex(h, n) == [i \in 1..n |-> HexDigits[HexDigit(h, n - i) + 1]]

\* event.get(key): an event is the JSON object as received, a sequence of
\* <<key, value>> with distinct keys
HasKey(event, key) == \E i \in 1..Len(event) : event[i][1] = key
Get(event, key) == event[CHOOSE i \in 1..Len(event) : event[i][1] = key][2]
\* event.get(key, default)
GetOr(event, key, default) == IF HasKey(event, key) THEN Get(event, key) ELSE default
\* the event as a Python dict compares: its keys and their values
AsDict(event) == [k \in {event[i][1] : i \in 1..Len(event)} |-> Get(event, k)]

\* the order of keys under sort_keys=True
KeyOrder == <<"actor", "destination", "endpoint", "file", "id", "key", "new_value",
              "result", "status_code", "system", "type", "user">>
KeyRank(key) == CHOOSE i \in 1..Len(KeyOrder) : KeyOrder[i] = key
RECURSIVE SortByKey(_)
SortByKey(event) ==
    IF event = <<>> THEN <<>>
    ELSE LET m == CHOOSE i \in 1..Len(event) :
                     \A j \in 1..Len(event) : KeyRank(event[i][1]) <= KeyRank(event[j][1])
             rest == [j \in 1..(Len(event) - 1) |-> IF j < m THEN event[j] ELSE event[j + 1]]
         IN  <<event[m]>> \o SortByKey(rest)

\* the text of a value: its characters, or the value itself as one token
ValueText(key, value) == IF key \in {"id", "system"} THEN value ELSE <<value>>
RECURSIVE Flatten(_)
Flatten(event) ==
    IF event = <<>> THEN <<>>
    ELSE <<event[1][1]>> \o ValueText(event[1][1], event[1][2]) \o Flatten(Tail(event))

\* json.dumps(event) without sort_keys: the keys in the order they arrived
json_dumps_plain(event) == Flatten(event)

\* a serialization that keeps the keys in their order of arrival
json_dumps_Unsorted(event) == Flatten(event)

\* json.dumps(event, sort_keys=True)
json_dumps_sorted(event) == Flatten(SortByKey(event))

\* re.fullmatch(r"[A-Za-z0-9._-]{1,128}", value)
IsSafeId(value) ==
    /\ Len(value) >= 1
    /\ Len(value) <= MaxSafeIdLen
    /\ \A i \in 1..Len(value) : value[i] \in SafeIdChars

\* generate_safe_id
generate_safe_id(value) ==
    IF IsSafeId(value) THEN value
    ELSE <<"h", "a", "s", "h", "-">> \o Hex(Digest(value), HashHexLen)

\* map_event_to_rdf: event_id, `if not event_id:` derives it from the digest
EventId(event) ==
    IF HasKey(event, "id") /\ Get(event, "id") # <<>>
    THEN Get(event, "id")
    ELSE <<"a", "u", "t", "o", "-">> \o Hex(Digest(json_dumps_sorted(event)), AutoHexLen)

\* map_event_to_rdf: evidence_node = PACT[f"evidence/{safe_event_id}"]
EvidenceNode(event) == <<"evidence", generate_safe_id(EventId(event))>>

\* event.get("type", "unknown")
EventType(event) == IF HasKey(event, "type") THEN Get(event, "type") ELSE "unknown"

\* EVENT_CONTROL_MAP and resolve_control_uri
EVENT_CONTROL_MAP ==
    [file_access |-> "Control_AC3", network_connection |-> "Control_CM7",
     authentication |-> "Control_IA2", api_call |-> "Control_AU12",
     config_change |-> "Control_CM3"]
resolve_control_uri(event_type) ==
    <<"control", IF event_type \in DOMAIN EVENT_CONTROL_MAP
                 THEN EVENT_CONTROL_MAP[event_type] ELSE "Control_Unknown">>

\* str(target_control).split("#")[-1]: the characters of the control name
control_name(target_control) ==
    CASE target_control[2] = "Control_AC3"  -> <<"C","o","n","t","r","o","l","_","A","C","3">>
      [] target_control[2] = "Control_CM7"  -> <<"C","o","n","t","r","o","l","_","C","M","7">>
      [] target_control[2] = "Control_IA2"  -> <<"C","o","n","t","r","o","l","_","I","A","2">>
      [] target_control[2] = "Control_AU12" -> <<"C","o","n","t","r","o","l","_","A","U","1","2">>
      [] target_control[2] = "Control_CM3"  -> <<"C","o","n","t","r","o","l","_","C","M","3">>
      [] OTHER -> <<"C","o","n","t","r","o","l","_","U","n","k","n","o","w","n">>

\* a filter normalization that keeps the hyphens of the filter string
normalize_framework_KeepHyphen(tf) == remove(remove(lower(tf), <<"_">>), <<" ">>)

\* tf.lower().replace("-", "").replace("_", "").replace(" ", "")
normalize_framework(tf) ==
    remove(remove(remove(lower(tf), <<"-">>), <<"_">>), <<" ">>)

\* control_name.lower().replace("control_", "").replace("-", "").replace("_", "")
normalize_control(name) ==
    remove(remove(remove(lower(name), <<"c","o","n","t","r","o","l","_">>), <<"-">>), <<"_">>)

\* run_assessment: is_targeted = any(... for tf in target_frameworks)
is_targeted(target_control, frameworks) ==
    LET normalized_control == normalize_control(control_name(target_control))
    IN  \E k \in 1..Len(frameworks) :
            \/ contains(normalize_framework(frameworks[k]), normalized_control)
            \/ contains(normalized_control, normalize_framework(frameworks[k]))

\* system names
HR == <<"H", "R">>
Pay == <<"P", "a", "y">>
GenericFileServer == <<"G","e","n","e","r","i","c","F","i","l","e","S","e","r","v","e","r">>
GenericNetworkDevice == <<"G","e","n","e","r","i","c","N","e","t","w","o","r","k","D","e","v","i","c","e">>
IdentityProvider == <<"I","d","e","n","t","i","t","y","P","r","o","v","i","d","e","r">>
APIGateway == <<"A","P","I","G","a","t","e","w","a","y">>
ConfigManagement == <<"C","o","n","f","i","g","M","a","n","a","g","e","m","e","n","t">>
UnknownSystem == <<"U","n","k","n","o","w","n","S","y","s","t","e","m">>

\* resolve_system_uri: default_systems
default_systems ==
    [file_access |-> GenericFileServer, network_connection |-> GenericNetworkDevice,
     authentication |-> IdentityProvider, api_call |-> APIGateway,
     config_change |-> ConfigManagement]

\* resolve_system_uri: the name the event resolves to
ResolvedSystemName(event) ==
    IF HasKey(event, "system") /\ Get(event, "system") # <<>>
    THEN Get(event, "system")
    ELSE IF EventType(event) \in DOMAIN default_systems
         THEN default_systems[EventType(event)] ELSE UnknownSystem

\* re.sub(r'[^A-Za-z0-9_-]', '_', system_name) and PACT[safe_name]
SystemNode(name) ==
    <<"system", [i \in 1..Len(name) |-> IF name[i] \in SafeNameChars THEN name[i] ELSE "_"]>>

\* a resolution that adds the type and the label whatever the graph holds
resolve_system_uri_AddAlways(graph, event) ==
    LET name == ResolvedSystemName(event)
        system_uri == SystemNode(name)
    IN  {<<system_uri, "rdf:type", <<"class", "System">>>>,
         <<system_uri, "rdfs:label", <<"literal", name>>>>}

\* resolve_system_uri: the triples it adds to the graph
resolve_system_uri(graph, event) ==
    LET name == ResolvedSystemName(event)
        system_uri == SystemNode(name)
    IN  IF <<system_uri, "rdf:type", <<"class", "System">>>> \in graph
        THEN {}
        ELSE {<<system_uri, "rdf:type", <<"class", "System">>>>,
              <<system_uri, "rdfs:label", <<"literal", name>>>>}

(***************************************************************************)
(* Engine: inputs                                                          *)
(***************************************************************************)
\* an id one character longer than generate_safe_id takes verbatim
LongId == [i \in 1..(MaxSafeIdLen + 1) |-> "a"]

\* the events a batch is drawn from
EventPool ==
    { <<<<"type", "file_access">>, <<"user", "root">>>>,
      <<<<"user", "root">>, <<"type", "file_access">>>>,
      <<<<"type", "file_access">>, <<"user", "alice">>, <<"system", HR>>>>,
      <<<<"id", <<"e", "1">>>>, <<"type", "file_access">>, <<"user", "alice">>,
        <<"system", HR>>>>,
      <<<<"id", LongId>>, <<"type", "network_connection">>, <<"system", Pay>>>>,
      <<<<"id", <<"a", "/">>>>, <<"type", "custom">>>> }

RECURSIVE SeqsUpTo(_, _)
SeqsUpTo(S, n) ==
    IF n = 0 THEN {<<>>}
    ELSE LET shorter == SeqsUpTo(S, n - 1)
         IN  shorter \cup {Append(q, x) : q \in shorter, x \in S}

\* IngestRequest.events: min_length=1
Batches == SeqsUpTo(EventPool, MaxBatch) \ {<<>>}

\* IngestRequest.target_systems
TargetSystemChoices == {{}, {HR}, {GenericFileServer, Pay}}

\* IngestRequest.target_frameworks: filter strings
AC_3 == <<"A", "C", "-", "3">>
NIST_AC_3 == <<"N", "I", "S", "T", " ", "A", "C", "-", "3">>
ac_3 == <<"a", "c", "_", "3">>
CM == <<"C", "M">>
IA_2 == <<"I", "A", "-", "2">>
au12 == <<"a", "u", "1", "2">>
SOC2 == <<"S", "O", "C", "2">>

\* the context and controls files parsed into the scan graph
ContextGraph ==
    {<<SystemNode(HR), "rdf:type", <<"class", "System">>>>,
     <<SystemNode(HR), "rdfs:label", <<"literal", HR>>>>}

(***************************************************************************)
(* Engine: run_assessment                                                  *)
(***************************************************************************)
\* no run_assessment call
EngineIdle ==
    /\ event_stream = <<>>
    /\ target_systems = {}
    /\ target_frameworks = <<>>
    /\ epc = "off"
    /\ idx = 1
    /\ data_graph = {}
    /\ evidence_tracker = <<>>
    /\ results_graph = {}
    /\ item = 1
    /\ bnodes = 0
    /\ assessed = {}
    /\ seen = {}
    /\ scan_uuid = NoScan
    /\ timestamp_str = NoTime

\* datetime.datetime.now(datetime.timezone.utc): the clock moves on between
\* two calls of run_assessment, so the call after n others reads n + 1
utcnow(used) == Cardinality(used) + 1

\* run_assessment is entered with a batch and a system filter (framework
\* filters are drawn by ScanInit); the context and controls files are parsed
\* into the new scan graph
EngineStart ==
    /\ epc = "off"
    /\ event_stream' \in Batches
    /\ target_systems' \in TargetSystemChoices
    /\ target_frameworks' = <<>>
    /\ epc' = "map"
    /\ scan_uuid' \in uuid4(issued)
    /\ timestamp_str' = utcnow(issued)
    /\ data_graph' = ContextGraph
    /\ UNCHANGED <<storeVars, ingestVars, apiVars, idx, evidence_tracker, results_graph, item,
                   bnodes, assessed, seen>>

\* map_event_to_rdf: actor_info.get("name") if actor_info else None. An event
\* carries the name of its actor under "actor", the name of its user under
\* "user", the name of its file under "file" and the port of its destination
\* under "destination"; None and "" are both falsy and the code only tests
\* truthiness.
actor_name(event) == IF HasKey(event, "actor") THEN Get(event, "actor") ELSE ""

\* map_event_to_rdf: user_info.get("name", "unknown")
user_name(event) == IF HasKey(event, "user") THEN Get(event, "user") ELSE "unknown"

\* map_event_to_rdf: `effective_actor = actor_name or <subject>` and
\* `if effective_actor and effective_actor != "unknown":`
effective_actor_triples(node, actor, subject) ==
    LET effective_actor == IF actor # "" THEN actor ELSE subject
    IN  IF effective_actor # "" /\ effective_actor # "unknown"
        THEN {<<node, "pact:actorName", <<"literal", effective_actor>>>>}
        ELSE {}

\* map_event_to_rdf: `if actor_name:` of the types without a subject field
explicit_actor_triples(node, actor) ==
    IF actor # "" THEN {<<node, "pact:actorName", <<"literal", actor>>>>} ELSE {}

\* map_event_to_rdf: the triples of one event
map_event_to_rdf(graph, event) ==
    LET event_type == EventType(event)
        event_id == EventId(event)
        node == EvidenceNode(event)
        system_uri == SystemNode(ResolvedSystemName(event))
        actor == actor_name(event)
        owner_name == user_name(event)
        common ==
            {<<node, "pact:evidenceSourceUrl", <<"splunk", event_id>>>>,
             <<node, "pact:eventId", <<"literal", event_id>>>>,
             <<node, "pact:eventType", <<"literal", event_type>>>>}
        typed ==
            IF event_type = "file_access"
            THEN {<<node, "rdf:type", <<"class", "File">>>>,
                  <<node, "uco:fileName", <<"literal", GetOr(event, "file", "unknown")>>>>,
                  <<node, "uco:owner", <<"literal", owner_name>>>>}
                 \cup effective_actor_triples(node, actor, owner_name)
            ELSE IF event_type = "network_connection"
            THEN {<<node, "rdf:type", <<"class", "NetworkConnection">>>>,
                  <<node, "uco:destinationPort", <<"literal", GetOr(event, "destination", 0)>>>>,
                  <<node, "uco:protocol", <<"literal", "tcp">>>>}
                 \cup explicit_actor_triples(node, actor)
            ELSE IF event_type = "authentication"
            THEN {<<node, "rdf:type", <<"class", "Account">>>>,
                  <<node, "pact:authResult", <<"literal", GetOr(event, "result", "unknown")>>>>,
                  <<node, "pact:authMethod", <<"literal", "unknown">>>>,
                  <<node, "uco:accountLogin", <<"literal", owner_name>>>>}
                 \cup effective_actor_triples(node, actor, owner_name)
            ELSE IF event_type = "api_call"
            THEN {<<node, "rdf:type", <<"class", "URL">>>>,
                  <<node, "pact:apiEndpoint", <<"literal", GetOr(event, "endpoint", "")>>>>,
                  <<node, "pact:apiMethod", <<"literal", "GET">>>>,
                  <<node, "pact:apiStatus", <<"literal", GetOr(event, "status_code", 0)>>>>}
                 \cup explicit_actor_triples(node, actor)
            ELSE IF event_type = "config_change"
            THEN {<<node, "rdf:type", <<"class", "File">>>>,
                  <<node, "pact:configKey", <<"literal", GetOr(event, "key", "")>>>>,
                  <<node, "pact:configOldValue", <<"literal", "">>>>,
                  <<node, "pact:configNewValue", <<"literal", GetOr(event, "new_value", "")>>>>,
                  <<node, "pact:changedBy", <<"literal", owner_name>>>>}
                 \cup effective_actor_triples(node, actor, owner_name)
            ELSE {<<node, "rdf:type", <<"class", "GenericEvidence">>>>,
                  <<node, "pact:rawEventData", <<"literal", json_dumps_plain(event)>>>>}
    IN  common \cup resolve_system_uri(graph, event) \cup typed
            \cup {<<system_uri, "pact:hasComponent", node>>}

\* run_assessment: one iteration of `for event in event_stream:`
MapEvent ==
    /\ epc = "map"
    /\ idx <= Len(event_stream)
    /\ LET event == event_stream[idx]
           filtered == /\ target_systems # {}
                       /\ HasKey(event, "system")
                       /\ Get(event, "system") # <<>>
                       /\ Get(event, "system") \notin target_systems
       IN  IF filtered
           THEN UNCHANGED <<data_graph, evidence_tracker, seen>>
           ELSE /\ data_graph' = data_graph \cup map_event_to_rdf(data_graph, event)
                /\ evidence_tracker' = Append(evidence_tracker,
                       [node |-> EvidenceNode(event), id |-> EventId(event),
                        type |-> EventType(event),
                        system_uri |-> SystemNode(ResolvedSystemName(event)),
                        event |-> event])
                /\ seen' = IF HasKey(event, "id") THEN seen
                           ELSE seen \cup {<<AsDict(event), EvidenceNode(event)>>}
    /\ idx' = idx + 1
    /\ UNCHANGED <<storeVars, ingestVars, apiVars, event_stream, target_systems, target_frameworks,
                   epc, results_graph,
                   item, bnodes, assessed,
                   scan_uuid, timestamp_str>>

\* nodes the validator can report: the subjects of the data graph
FocusCandidates == {tr[1] : tr \in data_graph}

\* the reports validate() can return: results with a focus node and, or not,
\* a result message
RECURSIVE SubsetsUpTo(_, _)
SubsetsUpTo(S, n) ==
    IF n = 0 THEN {{}}
    ELSE LET smaller == SubsetsUpTo(S, n - 1)
         IN  smaller \cup {R \cup {x} : R \in smaller, x \in S}
Reports == SubsetsUpTo(FocusCandidates \X {TRUE, FALSE}, MaxResults)

\* run_assessment: validate(data_graph, shacl_graph=...) returns its report
Validate ==
    /\ epc = "map"
    /\ idx > Len(event_stream)
    /\ \E R \in Reports :
        results_graph' = {[focusNode |-> r[1], hasMessage |-> r[2]] : r \in R}
    /\ epc' = "messages"
    /\ UNCHANGED <<storeVars, ingestVars, apiVars, event_stream, target_systems, target_frameworks,
                   idx, data_graph,
                   evidence_tracker, item, bnodes, assessed, seen,
                   scan_uuid, timestamp_str>>

\* run_assessment: validate(...) raises; the call is outside any try block
\* and the exception leaves run_assessment
ValidateRaise ==
    /\ epc = "map"
    /\ idx > Len(event_stream)
    /\ epc' = "raised"
    /\ UNCHANGED <<storeVars, ingestVars, apiVars, event_stream, target_systems,
                   target_frameworks, idx, data_graph, evidence_tracker,
                   results_graph, item, bnodes, assessed, seen,
                   scan_uuid, timestamp_str>>

\* run_assessment: the violation messages are attached to their focus nodes
AttachMessages ==
    /\ epc = "messages"
    /\ data_graph' = data_graph \cup
          {<<r.focusNode, "pact:violationMessage", <<"literal", "message">>>> :
              r \in {x \in results_graph : x.hasMessage}}
    /\ epc' = "assess"
    /\ UNCHANGED <<storeVars, ingestVars, apiVars, event_stream, target_systems, target_frameworks,
                   idx,
                   evidence_tracker, results_graph, item, bnodes, assessed, seen,
                   scan_uuid, timestamp_str>>

\* a verdict that also looks at the ledger: evidence fails once the store
\* holds a scan
is_failure_FromLedger(node, results) ==
    (\E r \in results : r.focusNode = node) \/ ds.graphs # {}

\* a verdict that fails the nodes the report does not name
is_failure_Inverted(node, results) == ~\E r \in results : r.focusNode = node

\* a verdict taken from the violation messages instead of the report
is_failure_ByMessage(node, results) ==
    \E r \in results : r.focusNode = node /\ r.hasMessage

\* run_assessment: is_failure = (None, SH.focusNode, item['node']) in results_graph
is_failure(node, results) == \E r \in results : r.focusNode = node

\* one blank node for all the records of a scan
BNode_OnePerScan(scan, n) == <<"bnode", scan, 1>>

\* BNode(): an identifier no other call returns, here the scan of the call
\* and the number of the call in it
BNode(scan, n) == <<"bnode", scan, n>>

\* a record whose timestamp is read when the record is written
assessment_triples_OwnClock(assessment_node, id, node, target_control, verdict, time, scan) ==
    {<<assessment_node, "rdf:type", <<"class", "ComplianceAssessment">>>>,
     <<assessment_node, "rdfs:label", <<"check", id>>>>,
     <<assessment_node, "pact:generatedAt", <<"dateTime", time + assessment_node[3] - 1>>>>,
     <<assessment_node, "pact:evaluatedEvidence", node>>,
     <<assessment_node, "pact:validatesControl", target_control>>,
     <<assessment_node, "pact:scanId", <<"literal", scan>>>>,
     <<assessment_node, "pact:hasVerdict", <<"literal", verdict>>>>}

\* run_assessment: the triples of one assessment record
assessment_triples(assessment_node, id, node, target_control, verdict, time, scan) ==
    {<<assessment_node, "rdf:type", <<"class", "ComplianceAssessment">>>>,
     <<assessment_node, "rdfs:label", <<"check", id>>>>,
     <<assessment_node, "pact:generatedAt", <<"dateTime", time>>>>,
     <<assessment_node, "pact:evaluatedEvidence", node>>,
     <<assessment_node, "pact:validatesControl", target_control>>,
     <<assessment_node, "pact:scanId", <<"literal", scan>>>>,
     <<assessment_node, "pact:hasVerdict", <<"literal", verdict>>>>}

\* run_assessment: one iteration of `for item in evidence_tracker:`; an item
\* whose control is not targeted by a non-empty framework filter is skipped
Assess ==
    /\ epc = "assess"
    /\ item <= Len(evidence_tracker)
    /\ LET it == evidence_tracker[item]
           assessment_node == BNode(scan_uuid, bnodes + 1)
           target_control == resolve_control_uri(it.type)
           verdict == IF is_failure(it.node, results_graph) THEN "FAIL" ELSE "PASS"
       IN  IF target_frameworks # <<>> /\ ~is_targeted(target_control, target_frameworks)
           THEN UNCHANGED <<data_graph, assessed, bnodes>>
           ELSE /\ data_graph' = data_graph \cup
                     assessment_triples(assessment_node, it.id, it.node, target_control,
                                        verdict, timestamp_str, scan_uuid)
                /\ assessed' = assessed \cup {<<assessment_node, item>>}
                /\ bnodes' = bnodes + 1
    /\ item' = item + 1
    /\ UNCHANGED <<storeVars, ingestVars, apiVars, event_stream, target_systems, target_frameworks,
                   epc, idx, evidence_tracker, results_graph, seen, scan_uuid, timestamp_str>>

\* run_assessment: `return str(scan_uri), data_graph`
Return ==
    /\ epc = "assess"
    /\ item > Len(evidence_tracker)
    /\ epc' = "done"
    /\ UNCHANGED <<storeVars, ingestVars, apiVars, event_stream, target_systems, target_frameworks,
                   idx, data_graph,
                   evidence_tracker, results_graph, item, bnodes, assessed, seen,
                   scan_uuid, timestamp_str>>

\* the caller is done with the returned graph, or with the exception
EngineReset ==
    /\ epc \in {"done", "raised"}
    /\ event_stream' = <<>>
    /\ target_systems' = {}
    /\ target_frameworks' = <<>>
    /\ epc' = "off"
    /\ idx' = 1
    /\ data_graph' = {}
    /\ evidence_tracker' = <<>>
    /\ results_graph' = {}
    /\ item' = 1
    /\ bnodes' = 0
    /\ assessed' = {}
    /\ scan_uuid' = NoScan
    /\ timestamp_str' = NoTime
    /\ UNCHANGED <<storeVars, ingestVars, apiVars, seen>>

(***************************************************************************)
(* Requests                                                                *)
(***************************************************************************)
NoRequest == [events |-> <<>>, validate_strict |-> FALSE]
NoResponse == 0
NoCall == [endpoint |-> "none"]
NoReply == [status |-> NoResponse]

\* no ingest_events request
IngestIdle ==
    /\ request = NoRequest
    /\ ipc = "idle"
    /\ event_index = 1
    /\ valid_events = <<>>
    /\ validation_warnings = {}
    /\ response = NoResponse
    /\ calls = {}
    /\ before = [ds |-> EmptyDataset, file |-> NoFile]

\* no call of a read endpoint
ApiIdle ==
    /\ call = NoCall
    /\ reply = NoReply

(***************************************************************************)
(* Engine: one run_assessment call over every event type, framework        *)
(* filters and actor fields                                                *)
(***************************************************************************)
\* the event types of EVENT_CONTROL_MAP and one type outside it
EventTypes == <<"file_access", "network_connection", "authentication", "api_call",
               "config_change", "custom">>

\* one event of every type, under the ids e1 .. e6
AllTypesBatch ==
    [k \in 1..Len(EventTypes) |->
        <<<<"id", <<"e", HexDigits[k + 1]>>>>, <<"type", EventTypes[k]>>>>]

\* events of every type, with and without an actor name and a user name
ActorNames == {"", "unknown", "bob"}
UserNames == {"", "unknown", "alice"}
ActorEvents ==
    {<<<<"id", <<"e", "1">>>>, <<"type", EventTypes[k]>>>> \o a \o u :
        k \in 1..Len(EventTypes),
        a \in {<<>>} \cup {<<<<"actor", n>>>> : n \in ActorNames},
        u \in {<<>>} \cup {<<<<"user", n>>>> : n \in UserNames}}

\* the framework filters tried on the batch of every type
FrameworkChoices ==
    {<<AC_3>>, <<NIST_AC_3>>, <<ac_3>>, <<CM>>, <<SOC2>>, <<IA_2, au12>>}

\* the calls of run_assessment: the batch of every type under a framework
\* filter, or one event with its actor fields and no filter
ScanInputs ==
    {[events |-> AllTypesBatch, frameworks |-> f] : f \in FrameworkChoices}
        \cup {[events |-> <<e>>, frameworks |-> <<>>] : e \in ActorEvents}

\* run_assessment is entered with one of these calls
ScanInit ==
    /\ \E c \in ScanInputs :
        /\ event_stream = c.events
        /\ target_frameworks = c.frameworks
    /\ target_systems = {}
    /\ epc = "map"
    /\ idx = 1
    /\ data_graph = ContextGraph
    /\ evidence_tracker = <<>>
    /\ results_graph = {}
    /\ item = 1
    /\ bnodes = 0
    /\ assessed = {}
    /\ seen = {}
    /\ scan_uuid \in uuid4({})
    /\ timestamp_str = utcnow({})

(***************************************************************************)
(* History files found at startup                                          *)
(***************************************************************************)
\* documents save can have written: the context and the graphs of the scans
\* 1..n, leaving one identifier for a later ingestion
HistoryDocs ==
    {ContextQuads \cup {<<s, x>> : s \in 1..n, x \in g} :
        n \in 0..(MaxScans - 1), g \in GraphDataChoices}

\* what the parser can read of a corrupt document: the quads written before
\* one of its quads, in the order of serialization
ReadablePrefixes(doc) ==
    {{q \in doc : QuadBefore(q, bad) /\ q # bad} : bad \in doc}

\* the file at storage_file when the process starts: absent, a complete
\* document, or a corrupt one
HistoryFiles ==
    {NoFile}
        \cup {[exists |-> TRUE, quads |-> d, complete |-> TRUE] : d \in HistoryDocs}
        \cup {[exists |-> TRUE, quads |-> r, complete |-> FALSE] :
                 r \in UNION {ReadablePrefixes(d) : d \in HistoryDocs}}

\* the complete document with every scan and every triple
FullHistory ==
    [exists |-> TRUE,
     quads |-> ContextQuads \cup {<<s, x>> : s \in 1..(MaxScans - 1), x \in TripleIds},
     complete |-> TRUE]

\* the process with history file f on disk, before (started = FALSE) or after
\* PACTStore() is constructed
StoreOn(f, started) ==
    /\ ds = IF started THEN LoadStore(f) ELSE EmptyDataset
    /\ lock = Free
    /\ file = f
    /\ tmp = [t \in Threads |-> NoFile]
    /\ pc = [p \in Procs |-> IF started THEN "idle" ELSE "dead"]
    /\ scan_uri = [t \in Threads |-> NoScan]
    /\ graph_data = [t \in Threads |-> {}]
    /\ todo = [t \in Threads |-> {}]
    /\ obs = NoObs
    /\ down = ~started
    /\ issued = IF f.exists THEN GraphsOf(f.quads) ELSE {}
    /\ scanData = [s \in ScanIds |-> IF f.exists THEN GraphTriples(f.quads, s) ELSE {}]
    /\ outcome = [s \in ScanIds |-> IF s \in issued THEN "success" ELSE "none"]
    /\ fileAtMerge = [t \in Threads |-> NoFile]
    /\ snap = [t \in Threads |-> EmptyDataset]
    /\ fileSnap = IF f.exists THEN [graphs |-> GraphsOf(f.quads), quads |-> f.quads]
                  ELSE EmptyDataset
    /\ last_save = "none"

\* the process is about to start on any history file
StartupInit ==
    /\ \E f \in HistoryFiles : StoreOn(f, FALSE)
    /\ EngineIdle /\ IngestIdle /\ ApiIdle

(***************************************************************************)
(* ingest_events (app/api/v1/endpoints/ingest.py)                          *)
(***************************************************************************)
\* DestinationInfo.port: ge=0, le=65535
MaxPort == 65535
\* APICallEvent.status_code: ge=100, le=599
MinStatus == 100
MaxStatus == 599
\* HTTP status codes of the responses
HTTP_200_OK == 200
HTTP_422_UNPROCESSABLE_ENTITY == 422
HTTP_500_INTERNAL_SERVER_ERROR == 500

\* FileInfo.name and UserInfo.name: required, min_length=1
HasName(event, key) == HasKey(event, key) /\ Get(event, key) # ""

\* validate_event: result.valid, the event against the schema of its type
\* (GenericEvent for a type outside schema_map)
validate_event(event) ==
    LET event_type == EventType(event)
        optional_user == HasKey(event, "user") => HasName(event, "user")
    IN  CASE event_type = "file_access" ->
                 HasName(event, "file") /\ HasName(event, "user")
          [] event_type = "network_connection" ->
                 HasKey(event, "destination") /\ Get(event, "destination") \in 0..MaxPort
          [] event_type = "authentication" ->
                 HasName(event, "user") /\ HasKey(event, "result")
          [] event_type = "api_call" ->
                 /\ HasKey(event, "endpoint")
                 /\ HasKey(event, "status_code")
                 /\ Get(event, "status_code") \in MinStatus..MaxStatus
                 /\ optional_user
          [] event_type = "config_change" ->
                 HasKey(event, "key") /\ HasKey(event, "new_value") /\ optional_user
          [] OTHER -> TRUE

\* the events a request is drawn from: a valid file_access event, one without
\* its file, an event of a type without schema, and one of these under the
\* id of the first event
IngestPool ==
    { <<<<"id", <<"e", "1">>>>, <<"type", "file_access">>, <<"file", "a.txt">>,
        <<"user", "alice">>>>,
      <<<<"id", <<"e", "2">>>>, <<"type", "file_access">>, <<"user", "alice">>>>,
      <<<<"id", <<"e", "3">>>>, <<"type", "custom">>>>,
      <<<<"id", <<"e", "1">>>>, <<"type", "custom">>>> }

\* IngestRequest: events (min_length=1) and validate_strict; target_systems
\* and target_frameworks are left at their default, the empty list
IngestRequests ==
    {[events |-> b, validate_strict |-> strict] :
        b \in SeqsUpTo(IngestPool, MaxBatch) \ {<<>>}, strict \in BOOLEAN}

\* the thread that serves the request
Worker == "t1"

\* a request arrives
IngestReceive ==
    /\ ipc = "idle"
    /\ request' \in IngestRequests
    /\ before' = [ds |-> ds, file |-> file]
    /\ ipc' = "validate"
    /\ UNCHANGED <<storeVars, engineVars, apiVars, event_index, valid_events,
                   validation_warnings, response, calls>>

\* a validation loop that records a warning for an invalid event whatever
\* validate_strict says
IngestValidate_Lenient ==
    /\ ipc = "validate"
    /\ event_index <= Len(request.events)
    /\ LET event == request.events[event_index]
       IN  IF validate_event(event)
           THEN /\ valid_events' = Append(valid_events, event)
                /\ UNCHANGED validation_warnings
           ELSE /\ validation_warnings' = validation_warnings \cup {event_index}
                /\ UNCHANGED valid_events
    /\ event_index' = event_index + 1
    /\ UNCHANGED <<storeVars, engineVars, apiVars, request, ipc, response, calls, before>>

\* ingest_events: one iteration of `for i, event in enumerate(request.events):`;
\* an invalid event raises HTTP 422 under validate_strict
IngestValidate ==
    /\ ipc = "validate"
    /\ event_index <= Len(request.events)
    /\ LET event == request.events[event_index]
       IN  IF validate_event(event)
           THEN /\ valid_events' = Append(valid_events, event)
                /\ event_index' = event_index + 1
                /\ UNCHANGED <<validation_warnings, response, ipc>>
           ELSE IF request.validate_strict
           THEN /\ response' = HTTP_422_UNPROCESSABLE_ENTITY
                /\ ipc' = "responded"
                /\ UNCHANGED <<valid_events, validation_warnings, event_index>>
           ELSE /\ validation_warnings' = validation_warnings \cup {event_index}
                /\ event_index' = event_index + 1
                /\ UNCHANGED <<valid_events, response, ipc>>
    /\ UNCHANGED <<storeVars, engineVars, apiVars, request, calls, before>>

\* ingest_events: `if not valid_events:` raises HTTP 422
IngestNoValidEvents ==
    /\ ipc = "validate"
    /\ event_index > Len(request.events)
    /\ valid_events = <<>>
    /\ response' = HTTP_422_UNPROCESSABLE_ENTITY
    /\ ipc' = "responded"
    /\ UNCHANGED <<storeVars, engineVars, apiVars, request, event_index, valid_events,
                   validation_warnings, calls, before>>

\* ingest_events: run_assessment(valid_events, target_systems=None,
\* target_frameworks=None) is entered: uuid4 names the scan, the context and
\* controls files are parsed into the new scan graph
IngestCallRunAssessment ==
    /\ ipc = "validate"
    /\ event_index > Len(request.events)
    /\ valid_events # <<>>
    /\ epc = "off"
    /\ issued # ScanIds
    /\ \E u \in uuid4(issued) :
        /\ scan_uri' = [scan_uri EXCEPT ![Worker] = u]
        /\ scan_uuid' = u
        /\ issued' = issued \cup {u}
    /\ timestamp_str' = utcnow(issued)
    /\ event_stream' = valid_events
    /\ target_systems' = {}
    /\ target_frameworks' = <<>>
    /\ epc' = "map"
    /\ data_graph' = ContextGraph
    /\ calls' = calls \cup {"run_assessment"}
    /\ ipc' = "run_assessment"
    /\ UNCHANGED <<apiVars, ds, lock, file, tmp, pc, graph_data, todo, obs, down,
                   scanData, outcome, fileAtMerge, snap, fileSnap, last_save,
                   idx, evidence_tracker, results_graph, item, bnodes, assessed, seen,
                   request, event_index, valid_events, validation_warnings, response,
                   before>>

\* the quads add_graph merges for the returned graph
ScanQuads == {<<scan_uri[Worker], tr>> : tr \in data_graph}

\* a handler that stores whatever graph run_assessment had built, also when
\* the call raised
IngestAddGraph_Always ==
    /\ ipc = "run_assessment"
    /\ epc \in {"done", "raised"}
    /\ ds' = [graphs |-> ds.graphs \cup {scan_uri[Worker]},
              quads |-> ds.quads \cup ScanQuads]
    /\ file' = [exists |-> TRUE, quads |-> ds'.quads, complete |-> TRUE]
    /\ calls' = calls \cup {"add_graph"}
    /\ response' = HTTP_200_OK
    /\ ipc' = "responded"
    /\ last_save' = "succeeded"
    /\ UNCHANGED <<engineVars, apiVars, lock, tmp, pc, scan_uri, graph_data, todo, obs,
                   down, issued, scanData, outcome, fileAtMerge, snap, fileSnap,
                   request, event_index, valid_events, validation_warnings, before>>

\* ingest_events: run_assessment returned; db.add_graph(scan_uri, graph_data)
\* merges the graph and saves the store, and the response is status "success"
IngestAddGraph ==
    /\ ipc = "run_assessment"
    /\ epc = "done"
    /\ ds' = [graphs |-> ds.graphs \cup {scan_uri[Worker]},
              quads |-> ds.quads \cup ScanQuads]
    /\ file' = [exists |-> TRUE, quads |-> ds'.quads, complete |-> TRUE]
    /\ calls' = calls \cup {"add_graph"}
    /\ response' = HTTP_200_OK
    /\ ipc' = "responded"
    /\ last_save' = "succeeded"
    /\ UNCHANGED <<engineVars, apiVars, lock, tmp, pc, scan_uri, graph_data, todo, obs,
                   down, issued, scanData, outcome, fileAtMerge, snap, fileSnap,
                   request, event_index, valid_events, validation_warnings, before>>

\* ingest_events: db.add_graph merges the graph, save raises, and
\* `except Exception` answers HTTP 500
IngestAddGraphSaveFail ==
    /\ ipc = "run_assessment"
    /\ epc = "done"
    /\ ds' = [graphs |-> ds.graphs \cup {scan_uri[Worker]},
              quads |-> ds.quads \cup ScanQuads]
    /\ calls' = calls \cup {"add_graph"}
    /\ response' = HTTP_500_INTERNAL_SERVER_ERROR
    /\ ipc' = "responded"
    /\ last_save' = "failed"
    /\ UNCHANGED <<engineVars, apiVars, lock, file, tmp, pc, scan_uri, graph_data, todo,
                   obs, down, issued, scanData, outcome, fileAtMerge, snap, fileSnap,
                   request, event_index, valid_events, validation_warnings, before>>

\* ingest_events: run_assessment raised; `except Exception` answers HTTP 500
IngestAssessmentRaised ==
    /\ ipc = "run_assessment"
    /\ epc = "raised"
    /\ response' = HTTP_500_INTERNAL_SERVER_ERROR
    /\ ipc' = "responded"
    /\ UNCHANGED <<storeVars, engineVars, apiVars, request, event_index, valid_events,
                   validation_warnings, calls, before>>

\* the service is up on no history file or on a complete one
IngestInit ==
    /\ \E f \in {NoFile, FullHistory} : StoreOn(f, TRUE)
    /\ EngineIdle /\ IngestIdle /\ ApiIdle

(***************************************************************************)
(* API key middleware (app/main.py)                                        *)
(***************************************************************************)
HTTP_400_BAD_REQUEST == 400
HTTP_401_UNAUTHORIZED == 401

\* URL paths, as their characters
RootPath == <<"/">>
HealthPath == <<"/", "h", "e", "a", "l", "t", "h">>
DocsPath == <<"/", "d", "o", "c", "s">>
RedocPath == <<"/", "r", "e", "d", "o", "c">>
OpenapiPath == <<"/", "o", "p", "e", "n", "a", "p", "i", ".", "j", "s", "o", "n">>
LoginPath == <<"/", "v", "1", "/", "a", "u", "t", "h", "/", "l", "o", "g", "i", "n">>
RefreshPath == <<"/", "v", "1", "/", "a", "u", "t", "h", "/", "r", "e", "f", "r", "e", "s", "h">>
VisualizePrefix == <<"/", "v", "i", "s", "u", "a", "l", "i", "z", "e">>
VisualizerPath == <<"/", "v", "i", "s", "u", "a", "l", "i", "z", "e", "r">>
StatsPath == <<"/", "v", "1", "/", "c", "o", "m", "p", "l", "i", "a", "n", "c", "e", "/", "s", "t", "a", "t", "s">>
IngestPath == <<"/", "v", "1", "/", "i", "n", "g", "e", "s", "t">>

\* LegacyAPIKeyMiddleware.EXCLUDED_PATHS
EXCLUDED_PATHS == {RootPath, HealthPath, DocsPath, RedocPath, OpenapiPath, LoginPath,
                   RefreshPath}

\* the paths requests are sent to
Paths == {RootPath, HealthPath, LoginPath, VisualizePrefix, VisualizerPath, StatsPath,
          IngestPath}

\* str.startswith
startswith(text, prefix) ==
    Len(text) >= Len(prefix) /\ SubSeq(text, 1, Len(prefix)) = prefix

\* PACT_API_KEY: not set, or set
ConfiguredKeys == {"", "secret"}
\* the key a request carries at one location: none, the configured one, another
ApiKeys == {"", "secret", "wrong"}

\* a request: its path, the X-API-Key header, the Authorization header
\* (<<>> when absent, else scheme and credentials), the query parameters
\* api_key and key, the cookie pact_api_key
HttpRequests ==
    [path : Paths,
     x_api_key : ApiKeys,
     authorization : {<<>>} \cup {<<"Bearer", k>> : k \in ApiKeys} \cup {<<"Basic", "secret">>},
     query_api_key : ApiKeys,
     query_key : ApiKeys,
     cookie : ApiKeys]

\* LegacyAPIKeyMiddleware._extract_api_key ("" for None)
extract_api_key(req) ==
    IF req.x_api_key # "" THEN req.x_api_key
    ELSE IF req.authorization # <<>> /\ req.authorization[1] = "Bearer"
    THEN req.authorization[2]
    ELSE IF req.query_api_key # "" THEN req.query_api_key
    ELSE IF req.query_key # "" THEN req.query_key
    ELSE req.cookie

\* call_next(request): the route handler runs and decides the status
PassedOn == [status |-> NoResponse, passed |-> TRUE]

\* LegacyAPIKeyMiddleware.dispatch
dispatch(configured, req) ==
    IF configured = "" THEN PassedOn
    ELSE IF req.path \in EXCLUDED_PATHS THEN PassedOn
    ELSE IF startswith(req.path, VisualizePrefix) THEN PassedOn
    ELSE LET api_key == extract_api_key(req)
         IN  IF api_key = "" \/ api_key # configured
             THEN [status |-> HTTP_401_UNAUTHORIZED, passed |-> FALSE]
             ELSE PassedOn

\* a request goes through the middleware
Dispatch ==
    /\ call = NoCall
    /\ \E configured \in ConfiguredKeys, req \in HttpRequests :
        /\ call' = [endpoint |-> "dispatch", configured |-> configured, request |-> req]
        /\ reply' = dispatch(configured, req)
    /\ UNCHANGED <<storeVars, engineVars, ingestVars>>

(***************************************************************************)
(* Endpoints that build a query from request text                          *)
(***************************************************************************)
\* bound: length of a filter text
MaxFilterLen == 2
\* _VULN_FILTER_RE: {1,64}
MaxVulnLen == 64
\* the characters filter texts are made of
FilterAlphabet == {"a", "-", "\"", "\\"}
\* a vulnerability identifier as users write it
CVE_2021_44228 == <<"C", "V", "E", "-", "2", "0", "2", "1", "-", "4", "4", "2", "2", "8">>
\* request texts; <<>> is None or the empty string, both falsy
FilterTexts == SeqsUpTo(FilterAlphabet, MaxFilterLen) \cup {CVE_2021_44228}

\* the class [A-Za-z0-9 _\\-\\.:/] of _VULN_FILTER_RE: inside the raw string
\* `\\` is a backslash and `\\-\\` the range from backslash to backslash, so the
\* class holds the backslash and does not hold the hyphen
VulnFilterChars == Letters \cup Digits \cup {" ", "_", "\\", ".", ":", "/"}

\* _VULN_FILTER_RE.fullmatch(vulnerability)
vuln_filter_match(text) ==
    /\ Len(text) >= 1
    /\ Len(text) <= MaxVulnLen
    /\ \A k \in 1..Len(text) : text[k] \in VulnFilterChars

\* vulnerability.replace("\\", "\\\\").replace('"', '\\"')
RECURSIVE safe_vuln(_)
safe_vuln(text) ==
    IF text = <<>> THEN <<>>
    ELSE (IF Head(text) \in {"\\", "\""} THEN <<"\\", Head(text)>> ELSE <<Head(text)>>)
             \o safe_vuln(Tail(text))

\* the texts of a call that are not None
Given(texts) == {x \in texts : x # <<>>}

\* an answer: its status and the pieces of text put into the query string
Answer(code, pieces) == [status |-> code, interpolated |-> pieces]

\* get_compliance_timeline: `if system_id:` and `if control_id:` put the text
\* between the quotes of a FILTER
Timeline ==
    /\ call = NoCall
    /\ \E system_id \in FilterTexts, control_id \in FilterTexts :
        /\ call' = [endpoint |-> "timeline", texts |-> Given({system_id, control_id})]
        /\ reply' = Answer(HTTP_200_OK, Given({system_id, control_id}))
    /\ UNCHANGED <<storeVars, engineVars, ingestVars>>

\* export_oscal / generate_oscal_from_store: `if system_filter:` and
\* `if framework_filter:` put the text between the quotes of a FILTER
ExportOscal ==
    /\ call = NoCall
    /\ \E system_filter \in FilterTexts, framework_filter \in FilterTexts :
        /\ call' = [endpoint |-> "oscal", texts |-> Given({system_filter, framework_filter})]
        /\ reply' = Answer(HTTP_200_OK, Given({system_filter, framework_filter}))
    /\ UNCHANGED <<storeVars, engineVars, ingestVars>>

\* get_scan_detail: the path parameter is put into `GRAPH <{scan_id}>`
ScanDetail ==
    /\ call = NoCall
    /\ \E scan_id \in FilterTexts \ {<<>>} :
        /\ call' = [endpoint |-> "scan_detail", texts |-> {scan_id}]
        /\ reply' = Answer(HTTP_200_OK, {scan_id})
    /\ UNCHANGED <<storeVars, engineVars, ingestVars>>

(***************************************************************************)
(* get_drift (app/api/v1/endpoints/compliance.py)                          *)
(***************************************************************************)
\* bound: scans in the ledger, and timestamps they can carry
MaxLedger == 2
Times == 1..MaxLedger

\* what one scan assessed: file_access events by file name, with the verdict
\* of each
ScanChecks ==
    { <<<<"a.txt", "PASS">>>>,
      <<<<"a.txt", "FAIL">>>>,
      <<<<"b.txt", "PASS">>>>,
      <<<<"a.txt", "PASS">>, <<"b.txt", "FAIL">>>>,
      <<<<"a.txt", "PASS">>, <<"a.txt", "FAIL">>>> }

\* a committed scan: the timestamp run_assessment took, whether the controls
\* file gave the scan graph the labels of the controls, and its checks
CommittedScans == [time : Times, controls_loaded : BOOLEAN, checks : ScanChecks]

\* ledgers: the scans in the order of their commit
Ledgers == SeqsUpTo(CommittedScans, MaxLedger)

\* the labels the controls file gives the controls of EVENT_CONTROL_MAP
ControlLabels ==
    {<<resolve_control_uri(t), "rdfs:label", <<"literal", EVENT_CONTROL_MAP[t]>>>> :
        t \in DOMAIN EVENT_CONTROL_MAP}

\* the k-th event of scan g
CheckedEvent(scan, g, k) ==
    <<<<"id", <<"e", HexDigits[g + 1], HexDigits[k + 1]>>>>, <<"type", "file_access">>,
      <<"file", scan.checks[k][1]>>, <<"user", "alice">>>>

\* the graph run_assessment returns for a scan: context, controls when they
\* load, the triples of every event and one assessment record per event
ScanGraph(scan, g) ==
    LET loaded == ContextGraph \cup (IF scan.controls_loaded THEN ControlLabels ELSE {})
        checked == 1..Len(scan.checks)
        record(k) ==
            LET event == CheckedEvent(scan, g, k)
            IN  assessment_triples(BNode(g, k), EventId(event), EvidenceNode(event),
                                   resolve_control_uri(EventType(event)),
                                   scan.checks[k][2], scan.time, g)
    IN  loaded
          \cup UNION {map_event_to_rdf(loaded, CheckedEvent(scan, g, k)) : k \in checked}
          \cup UNION {record(k) : k \in checked}

\* the named graphs of the store holding the ledger
NamedGraphs(ledger) == [g \in 1..Len(ledger) |-> ScanGraph(ledger[g], g)]

\* triple patterns: subjects of (?s p o) and objects of (s p ?o) in a graph
SubjectsOf(graph, p, o) == {tr[1] : tr \in {x \in graph : x[2] = p /\ x[3] = o}}
ObjectsOf(graph, s, p) == {tr[3] : tr \in {x \in graph : x[2] = p /\ x[1] = s}}

\* the query of get_drift before its FILTER: the solutions of
\* GRAPH ?g2 { ... } joined with those of GRAPH ?g1 { ... } on ?control and
\* ?identifier
DriftJoin(graphs) ==
    LET fails(g2) ==
            {[control |-> c, identifier |-> i, time2 |-> t2[2], systemName |-> n[2]] :
                <<a, c, e, t2, i, y, n>> \in
                    {z \in UNION {UNION {UNION {
                            {<<a, c, e, t2, i, y, n>> :
                                t2 \in ObjectsOf(graphs[g2], a, "pact:generatedAt"),
                                i \in ObjectsOf(graphs[g2], e, "uco:fileName"),
                                y \in SubjectsOf(graphs[g2], "pact:hasComponent", e),
                                n \in UNION {ObjectsOf(graphs[g2], y2, "rdfs:label") :
                                        y2 \in SubjectsOf(graphs[g2], "pact:hasComponent", e)}} :
                            e \in ObjectsOf(graphs[g2], a, "pact:evaluatedEvidence")} :
                            c \in ObjectsOf(graphs[g2], a, "pact:validatesControl")} :
                            a \in SubjectsOf(graphs[g2], "pact:hasVerdict", <<"literal", "FAIL">>)} :
                        /\ ObjectsOf(graphs[g2], z[3], "pact:evidenceSourceUrl") # {}
                        /\ ObjectsOf(graphs[g2], z[2], "rdfs:label") # {}
                        /\ z[7] \in ObjectsOf(graphs[g2], z[6], "rdfs:label")}}
        passes(g1) ==
            UNION {UNION {
                {[control |-> c, identifier |-> i, time1 |-> t1[2]] :
                    t1 \in ObjectsOf(graphs[g1], a, "pact:generatedAt"),
                    i \in UNION {ObjectsOf(graphs[g1], e, "uco:fileName") :
                            e \in ObjectsOf(graphs[g1], a, "pact:evaluatedEvidence")}} :
                c \in ObjectsOf(graphs[g1], a, "pact:validatesControl")} :
                a \in SubjectsOf(graphs[g1], "pact:hasVerdict", <<"literal", "PASS">>)}
    IN  UNION {
            {[systemName |-> f.systemName, control |-> f.control,
              identifier |-> f.identifier, time1 |-> q.time1, time2 |-> f.time2] :
                <<f, q>> \in {w \in fails(g[1]) \X passes(g[2]) :
                                 /\ w[1].control = w[2].control
                                 /\ w[1].identifier = w[2].identifier}} :
            g \in (DOMAIN graphs) \X (DOMAIN graphs)}

\* a query whose FILTER also lets equal timestamps through
get_drift_NotStrict(graphs) ==
    {[system |-> row.systemName, control |-> row.control, asset |-> row.identifier,
      previous_pass |-> row.time1, current_fail |-> row.time2] :
        row \in {x \in DriftJoin(graphs) : x.time2 >= x.time1}}

\* get_drift: FILTER (?time2 > ?time1), every solution mapped to a row
get_drift(graphs) ==
    {[system |-> row.systemName, control |-> row.control, asset |-> row.identifier,
      previous_pass |-> row.time1, current_fail |-> row.time2] :
        row \in {x \in DriftJoin(graphs) : x.time2 > x.time1}}

\* GET /v1/compliance/drift over a ledger
GetDrift ==
    /\ call = NoCall
    /\ \E ledger \in Ledgers :
        /\ call' = [endpoint |-> "drift", scans |-> ledger]
        /\ reply' = [status |-> HTTP_200_OK, rows |-> get_drift(NamedGraphs(ledger))]
    /\ UNCHANGED <<storeVars, engineVars, ingestVars>>

(***************************************************************************)
(* get_blast_radius and check_threat_mitigation                            *)
(* (app/api/v1/endpoints/compliance.py)                                    *)
(***************************************************************************)
DEFAULT_BLAST_LIMIT == 50
DEFAULT_THREATS_LIMIT == 50

\* a business process of the system context, and a vulnerability and a
\* framework requirement of the threat and framework mappings
Payments == <<"process", <<"P", "a", "y", "m", "e", "n", "t", "s">>>>
Log4Shell == <<"vulnerability", CVE_2021_44228>>
AccessEnforcement == <<"requirement", NIST_AC_3>>

\* the context and controls files parsed into every scan graph: the system
\* HR, which supports no business process, the system Pay, which supports
\* Payments, and the labels of the controls
SystemContext ==
    ContextGraph \cup ControlLabels \cup
    {<<SystemNode(Pay), "rdf:type", <<"class", "System">>>>,
     <<SystemNode(Pay), "rdfs:label", <<"literal", Pay>>>>,
     <<SystemNode(Pay), "pact:supports", Payments>>,
     <<Payments, "rdfs:label", <<"literal", Payments[2]>>>>}

\* the default graph of the store, loaded by PACTStore.__init__ from the
\* framework and threat mappings: Control_AC3 mitigates one vulnerability
\* and satisfies one requirement
GlobalKnowledge ==
    {<<resolve_control_uri("file_access"), "pact:mitigates", Log4Shell>>,
     <<Log4Shell, "rdfs:label", <<"literal", CVE_2021_44228>>>>,
     <<resolve_control_uri("file_access"), "rdfs:label",
       <<"literal", EVENT_CONTROL_MAP["file_access"]>>>>,
     <<resolve_control_uri("file_access"), "pact:satisfiesRequirement", AccessEnforcement>>}

\* what a scan assessed: the type and the system of an event, and its verdict
AnalyticsChecks ==
    {[type |-> "file_access", system |-> Pay, verdict |-> "FAIL"],
     [type |-> "file_access", system |-> Pay, verdict |-> "PASS"],
     [type |-> "file_access", system |-> HR, verdict |-> "FAIL"],
     [type |-> "network_connection", system |-> Pay, verdict |-> "FAIL"],
     [type |-> "authentication", system |-> Pay, verdict |-> "FAIL"]}

\* a scan of one more failing event than a report has rows
BulkChecks ==
    [k \in 1..(DEFAULT_BLAST_LIMIT + 1) |->
        [type |-> "file_access", system |-> Pay, verdict |-> "FAIL"]]

\* committed scans of one event, at any time
AnalyticsScans == [time : Times, checks : {<<c>> : c \in AnalyticsChecks}]

\* the bulk scan, at the earliest time
BulkScan == [time |-> 1, checks |-> BulkChecks]

\* ledgers: the scans in the order of their commit, and the bulk scan alone
\* and followed by a later failing scan
AnalyticsLedgers ==
    SeqsUpTo(AnalyticsScans, MaxLedger)
        \cup {<<BulkScan>>}
        \cup {<<BulkScan, [time |-> MaxLedger, checks |-> <<c>>]>> :
                 c \in {x \in AnalyticsChecks : x.verdict = "FAIL" /\ x.system = Pay}}

\* the k-th event of scan g
AnalyticsEvent(check, g, k) ==
    <<<<"id", <<"e", HexDigits[g + 1], HexDigits[(k \div 16) + 1], HexDigits[(k % 16) + 1]>>>>,
      <<"type", check.type>>, <<"system", check.system>>>>
    \o (IF check.type = "file_access"
        THEN <<<<"file", "a.txt">>, <<"user", "alice">>>>
        ELSE IF check.type = "network_connection"
        THEN <<<<"destination", 22>>>>
        ELSE <<<<"user", "alice">>, <<"result", "failure">>>>)

\* the graph run_assessment returns for a scan
AnalyticsGraph(scan, g) ==
    LET checked == 1..Len(scan.checks)
        event(k) == AnalyticsEvent(scan.checks[k], g, k)
    IN  SystemContext
          \cup UNION {map_event_to_rdf(SystemContext, event(k)) : k \in checked}
          \cup UNION {assessment_triples(BNode(g, k), EventId(event(k)),
                                         EvidenceNode(event(k)),
                                         resolve_control_uri(EventType(event(k))),
                                         scan.checks[k].verdict, scan.time, g) :
                         k \in checked}

\* the named graphs of the store holding the ledger
AnalyticsGraphs(ledger) == [g \in 1..Len(ledger) |-> AnalyticsGraph(ledger[g], g)]

\* ORDER BY DESC(?time): the solutions as a list, latest first; solutions of
\* equal time come in the order the query engine found them, here the order
\* CHOOSE gives
RECURSIVE OrderByTimeDesc(_)
OrderByTimeDesc(S) ==
    IF S = {} THEN <<>>
    ELSE LET first == CHOOSE x \in S : \A y \in S : x.time >= y.time
         IN  <<first>> \o OrderByTimeDesc(S \ {first})

\* LIMIT n
Limit(rows, n) == SubSeq(rows, 1, IF Len(rows) < n THEN Len(rows) ELSE n)

\* the query of get_blast_radius inside GRAPH ?g for one assessment and one
\* evidence node of it; str() of the mapper is applied to the identifier
BlastSolutionsOf(graph, a, ev) ==
    LET identifiers ==
            {i[2] : i \in ObjectsOf(graph, ev, "uco:fileName")}
                \cup {ToString(i[2]) : i \in ObjectsOf(graph, ev, "uco:destinationPort")}
        owners ==
            UNION {ObjectsOf(graph, system, "rdfs:label")
                      \X UNION {ObjectsOf(graph, process, "rdfs:label") :
                                   process \in ObjectsOf(graph, system, "pact:supports")} :
                   system \in SubjectsOf(graph, "pact:hasComponent", ev)}
        controls == ObjectsOf(graph, a, "pact:validatesControl")
    IN  UNION {
            {[process |-> o[2][2], system |-> o[1][2], control |-> label[2],
              asset |-> i, time |-> t[2], link |-> d,
              impacted_frameworks |->
                  ObjectsOf(GlobalKnowledge, control, "pact:satisfiesRequirement")] :
                o \in owners, i \in identifiers,
                label \in ObjectsOf(graph, control, "rdfs:label"),
                t \in ObjectsOf(graph, a, "pact:generatedAt"),
                d \in ObjectsOf(graph, ev, "pact:evidenceSourceUrl")} :
            control \in controls}

\* get_blast_radius: the solutions over every named graph, grouped, latest
\* first, LIMIT DEFAULT_BLAST_LIMIT, each mapped to a row; an empty set of
\* impacted_frameworks is the row's "None"
get_blast_radius(graphs) ==
    LET solutions(graph) ==
            UNION {UNION {BlastSolutionsOf(graph, a, ev) :
                             ev \in ObjectsOf(graph, a, "pact:evaluatedEvidence")} :
                      a \in SubjectsOf(graph, "pact:hasVerdict", <<"literal", "FAIL">>)}
        results == Limit(OrderByTimeDesc(UNION {solutions(graphs[g]) : g \in DOMAIN graphs}),
                         DEFAULT_BLAST_LIMIT)
    IN  [k \in 1..Len(results) |->
            [process |-> results[k].process,
             system |-> results[k].system,
             control |-> results[k].control,
             asset |-> results[k].asset,
             timestamp |-> results[k].time,
             link |-> results[k].link,
             impacted_frameworks |-> {r[2] : r \in results[k].impacted_frameworks}]]

\* GET /v1/compliance/blast-radius over a ledger
GetBlastRadius ==
    /\ call = NoCall
    /\ \E ledger \in AnalyticsLedgers :
        /\ call' = [endpoint |-> "blast_radius", scans |-> ledger]
        /\ reply' = [status |-> HTTP_200_OK,
                     rows |-> get_blast_radius(AnalyticsGraphs(ledger))]
    /\ UNCHANGED <<storeVars, engineVars, ingestVars>>

\* the filters of GET /v1/compliance/threats sent to a store with a ledger:
\* none, and two plain texts, for which REGEX(?vulnName, text, "i") is a
\* case-insensitive search of the text
ThreatFilters == {<<>>, <<"c", "v", "e">>, <<"x", "s", "s">>}

\* the query of check_threat_mitigation: the mitigations of the default
\* graph joined with the assessments of every named graph, one solution for
\* every assessment
ThreatSolutions(graphs, vulnerability) ==
    LET mitigations ==
            {m \in {<<tr[1], tr[3]>> : tr \in {x \in GlobalKnowledge : x[2] = "pact:mitigates"}} :
                \E name \in ObjectsOf(GlobalKnowledge, m[2], "rdfs:label") :
                    vulnerability = <<>> \/ contains(lower(name[2]), lower(vulnerability))}
        inGraph(g, m) ==
            UNION {UNION {
                {[graph |-> g, assess |-> a, vulnName |-> v[2], controlName |-> c[2],
                  systemName |-> n[2], verdict |-> verdict[2], time |-> t[2]] :
                    v \in ObjectsOf(GlobalKnowledge, m[2], "rdfs:label"),
                    c \in ObjectsOf(GlobalKnowledge, m[1], "rdfs:label"),
                    verdict \in ObjectsOf(graphs[g], a, "pact:hasVerdict"),
                    t \in ObjectsOf(graphs[g], a, "pact:generatedAt"),
                    n \in UNION {ObjectsOf(graphs[g], system, "rdfs:label") :
                                    system \in SubjectsOf(graphs[g], "pact:hasComponent", ev)}} :
                ev \in ObjectsOf(graphs[g], a, "pact:evaluatedEvidence")} :
                a \in SubjectsOf(graphs[g], "pact:validatesControl", m[1])}
    IN  UNION {inGraph(w[1], w[2]) : w \in (DOMAIN graphs) \X mitigations}

\* check_threat_mitigation: the solutions latest first, LIMIT
\* DEFAULT_THREATS_LIMIT when no filter is given, each mapped to a row
check_threat_mitigation(graphs, vulnerability) ==
    LET ordered == OrderByTimeDesc(ThreatSolutions(graphs, vulnerability))
        results == IF vulnerability = <<>> THEN Limit(ordered, DEFAULT_THREATS_LIMIT)
                   ELSE ordered
    IN  [k \in 1..Len(results) |->
            [vulnerability |-> results[k].vulnName,
             mitigating_control |-> results[k].controlName,
             system |-> results[k].systemName,
             status |-> results[k].verdict]]

\* check_threat_mitigation: no filter, or a filter that is checked against
\* _VULN_FILTER_RE, escaped and put between the quotes of a REGEX; the rows
\* of the query over the store. Filters outside ThreatFilters are sent to an
\* empty store
Threats ==
    /\ call = NoCall
    /\ \E vulnerability \in FilterTexts \cup ThreatFilters :
        \E ledger \in (IF vulnerability \in ThreatFilters THEN AnalyticsLedgers ELSE {<<>>}) :
            /\ call' = [endpoint |-> "threats", texts |-> Given({vulnerability}),
                        vulnerability |-> vulnerability, scans |-> ledger]
            /\ reply' =
                  IF vulnerability # <<>> /\ ~vuln_filter_match(vulnerability)
                  THEN [status |-> HTTP_400_BAD_REQUEST, interpolated |-> {}, rows |-> <<>>]
                  ELSE [status |-> HTTP_200_OK,
                        interpolated |-> IF vulnerability = <<>> THEN {}
                                         ELSE {safe_vuln(vulnerability)},
                        rows |-> check_threat_mitigation(AnalyticsGraphs(ledger),
                                                         vulnerability)]
    /\ UNCHANGED <<storeVars, engineVars, ingestVars>>

(***************************************************************************)
(* resolve_system_uri as a function of the graph and the event              *)
(***************************************************************************)
\* system names that differ and are sanitized into one identifier
H_R == <<"H", "_", "R">>
H_space_R == <<"H", " ", "R">>

\* events by the two arguments resolve_system_uri gets from them: the system
\* name (absent, empty or given) and the event type
ResolveEvents ==
    {<<<<"type", t>>>> \o n :
        t \in {"file_access", "network_connection", "custom"},
        n \in {<<>>} \cup {<<<<"system", x>>>> : x \in {<<>>, HR, Pay, H_R, H_space_R}}}

\* a context in which the identifier PACT[Pay] names a business process
ProcessNamedPay ==
    {<<SystemNode(Pay), "rdf:type", <<"class", "BusinessProcess">>>>,
     <<SystemNode(Pay), "rdfs:label",
        <<"literal", <<"P", "a", "y", "m", "e", "n", "t", "s">>>>>>}

\* the graph of a scan when the first call is made: nothing loaded, the
\* context, or a context whose identifiers include a name events carry
ResolveGraphs == {{}, ContextGraph, ProcessNamedPay}

\* two calls of resolve_system_uri, in one scan (the second on the graph the
\* first left) or in two scans (the second on a graph of its own)
ResolveTwice ==
    /\ call = NoCall
    /\ \E e1 \in ResolveEvents, e2 \in ResolveEvents, g1 \in ResolveGraphs,
          g2 \in ResolveGraphs, same_scan \in BOOLEAN :
        LET added1 == resolve_system_uri(g1, e1)
            graph1 == g1 \cup added1
            start2 == IF same_scan THEN graph1 ELSE g2
            added2 == resolve_system_uri(start2, e2)
        IN  /\ call' = [endpoint |-> "resolve", events |-> <<e1, e2>>,
                        same_scan |-> same_scan, graphs |-> <<g1, start2>>]
            /\ reply' = [nodes |-> <<SystemNode(ResolvedSystemName(e1)),
                                     SystemNode(ResolvedSystemName(e2))>>,
                         added |-> <<added1, added2>>,
                         graphs |-> <<graph1, start2 \cup added2>>]
    /\ UNCHANGED <<storeVars, engineVars, ingestVars>>

Init == StoreInit /\ EngineIdle /\ IngestIdle /\ ApiIdle

Next ==
    \/ \E t \in Threads : IngestRunAssessment(t)
    \/ \E t \in Threads : AddGraphAcquire(t)
    \/ \E t \in Threads : AddGraphAddTriple(t)
    \/ \E t \in Threads : AddGraphRelease(t)
    \/ \E t \in Threads : SaveAcquire(t)
    \/ \E t \in Threads : SaveMkstempFail(t)
    \/ \E t \in Threads : SaveSerialize(t)
    \/ \E t \in Threads : SaveSerializeFail(t)
    \/ \E t \in Threads : SaveMove(t)
    \/ \E t \in Threads : SaveMoveFail(t)
    \/ \E t \in Threads : SaveExcept(t)
    \/ \E t \in Threads : IngestSuccess(t)
    \/ \E t \in Threads : IngestError(t)
    \/ QueryAcquire
    \/ QueryReturn
    \/ StatsAcquire
    \/ StatsReturn
    \/ HistoryQuery
    \/ Crash
    \/ Restart

Spec == Init /\ [][Next]_vars

EngineNext ==
    \/ EngineStart
    \/ MapEvent
    \/ Validate
    \/ ValidateRaise
    \/ AttachMessages
    \/ Assess
    \/ Return
    \/ EngineReset

SpecEngine == Init /\ [][EngineNext]_vars

\* one request to ingest_events
IngestNext ==
    \/ IngestReceive
    \/ IngestValidate
    \/ IngestNoValidEvents
    \/ IngestCallRunAssessment
    \/ MapEvent
    \/ Validate
    \/ ValidateRaise
    \/ AttachMessages
    \/ Assess
    \/ Return
    \/ IngestAddGraph
    \/ IngestAddGraphSaveFail
    \/ IngestAssessmentRaised

SpecIngest == IngestInit /\ [][IngestNext]_vars

\* calls of the read endpoints and requests through the middleware
ApiNext ==
    \/ Dispatch
    \/ Threats
    \/ Timeline
    \/ ExportOscal
    \/ ScanDetail
    \/ GetDrift
    \/ GetBlastRadius

SpecApi == Init /\ [][ApiNext]_vars

\* calls of resolve_system_uri
ResolveNext == ResolveTwice

SpecResolve == Init /\ [][ResolveNext]_vars

\* the calls of the store in a process that keeps running
LiveNext ==
    \/ \E t \in Threads : IngestRunAssessment(t)
    \/ \E t \in Threads : AddGraphAcquire(t)
    \/ \E t \in Threads : AddGraphAddTriple(t)
    \/ \E t \in Threads : AddGraphRelease(t)
    \/ \E t \in Threads : SaveAcquire(t)
    \/ \E t \in Threads : SaveMkstempFail(t)
    \/ \E t \in Threads : SaveSerialize(t)
    \/ \E t \in Threads : SaveSerializeFail(t)
    \/ \E t \in Threads : SaveMove(t)
    \/ \E t \in Threads : SaveMoveFail(t)
    \/ \E t \in Threads : SaveExcept(t)
    \/ \E t \in Threads : IngestSuccess(t)
    \/ \E t \in Threads : IngestError(t)
    \/ QueryCall
    \/ QueryEnter
    \/ QueryReturn
    \/ StatsCall
    \/ StatsEnter
    \/ StatsReturn

\* a thread that holds the lock or needs no lock goes on running
Running(t) ==
    \/ AddGraphAddTriple(t) \/ AddGraphRelease(t)
    \/ SaveSerialize(t) \/ SaveMove(t) \/ SaveExcept(t)
    \/ IngestSuccess(t) \/ IngestError(t)

\* a thread at `with self.lock:` gets the lock if it is free again and again
Acquiring(t) == AddGraphAcquire(t) \/ SaveAcquire(t)

\* fair scheduling: every thread keeps running, and no thread is passed over
\* for ever at a lock that is released again and again
Fairness ==
    /\ \A t \in Threads : WF_vars(Running(t)) /\ SF_vars(Acquiring(t))
    /\ WF_vars(QueryReturn \/ StatsReturn)
    /\ SF_vars(QueryEnter \/ StatsEnter)

\* the process is up on a history that leaves two scan identifiers, for two
\* concurrent ingestions
LiveHistory ==
    [exists |-> TRUE,
     quads |-> ContextQuads \cup {<<s, 1>> : s \in 1..(MaxScans - 2)},
     complete |-> TRUE]

LiveInit ==
    /\ StoreOn(LiveHistory, TRUE)
    /\ EngineIdle /\ IngestIdle /\ ApiIdle

SpecLive == LiveInit /\ [][LiveNext]_vars /\ Fairness

\* startup on a history file, then ingestions and reads
StartupNext ==
    \/ Restart
    \/ \E t \in Threads : IngestRunAssessment(t)
    \/ \E t \in Threads : AddGraphAcquire(t)
    \/ \E t \in Threads : AddGraphAddTriple(t)
    \/ \E t \in Threads : AddGraphRelease(t)
    \/ \E t \in Threads : SaveAcquire(t)
    \/ \E t \in Threads : SaveMkstempFail(t)
    \/ \E t \in Threads : SaveSerialize(t)
    \/ \E t \in Threads : SaveSerializeFail(t)
    \/ \E t \in Threads : SaveMove(t)
    \/ \E t \in Threads : SaveMoveFail(t)
    \/ \E t \in Threads : SaveExcept(t)
    \/ \E t \in Threads : IngestSuccess(t)
    \/ \E t \in Threads : IngestError(t)
    \/ QueryAcquire
    \/ QueryReturn
    \/ StatsAcquire
    \/ StatsReturn
    \/ HistoryQuery

SpecStartup == StartupInit /\ [][StartupNext]_vars

ScanNext ==
    \/ MapEvent
    \/ Validate
    \/ ValidateRaise
    \/ AttachMessages
    \/ Assess
    \/ Return

\* one scan by run_assessment on a fresh store, no request in progress
ScanStart == StoreInit /\ ScanInit /\ IngestIdle /\ ApiIdle

SpecScan == ScanStart /\ [][ScanNext]_vars

TypeOK ==
    /\ lock \in Procs \cup {Free}
    /\ ds.graphs \subseteq ScanIds

(***************************************************************************)
(* Properties of the store                                                 *)
(***************************************************************************)
\* the scan is in the durable history file
Durable(s) == file.exists /\ GraphTriples(file.quads, s) # {}

\* the merge loop of add_graph for scan s is over
Merged(s) == s \in ds.graphs /\ \A t \in Threads : ~(pc[t] = "merging" /\ scan_uri[t] = s)

\* no request is in progress
Quiescent == ~down /\ \A p \in Procs : pc[p] = "idle"

\* C1: an ingestion that was answered with an error leaves no trace: its
\* named graph is not in the in-memory store, no result of a reader shows
\* one of its triples and the durable history file does not hold it.
C1_FailedIngestLeavesNoTrace ==
    \A s \in ScanIds :
        outcome[s] = "error" =>
            /\ s \notin ds.graphs
            /\ GraphTriples(ds.quads, s) = {}
            /\ GraphTriples(obs.quads, s) = {}
            /\ ~Durable(s)

\* C2: in every state, a crash at any step of save and a failed
\* serialization included, the durable history file is absent or a complete
\* document holding exactly the store as it was when its serialization began.
C2_DurableFileNeverPartial ==
    file.exists => (file.complete /\ file.quads = fileSnap.quads)

\* the process crashed in the middle of a serialization while a history
\* file of an earlier save exists
C2_Witness ==
    /\ down
    /\ file.exists
    /\ \E t \in Threads :
        tmp[t].exists /\ ~tmp[t].complete /\ tmp[t].quads # {} /\ tmp[t].quads # file.quads

\* C3: when serialize or the rename has failed inside save, the durable
\* file is what it was before the merge of that add_graph call; once the
\* exception has left save the temporary file is gone, and no success
\* response was given for the scan.
C3_FailedSaveLeavesFileAsBeforeMerge ==
    \A t \in Threads :
        /\ pc[t] = "except" => file = fileAtMerge[t]
        /\ pc[t] = "raised" => ~tmp[t].exists
        /\ pc[t] \in {"except", "raised"} => outcome[scan_uri[t]] = "pending"

\* C4: from the first triple of a scan being added to the end of the
\* serialization, the calling thread holds the mutation lock, so no other
\* store operation can acquire it.
C4_MergeAndPersistOneCriticalSection ==
    \A t \in Threads :
        pc[t] \in {"merging", "save", "serialize"} => lock = t

\* C5: a result returned by any read path (query, get_stats, the history
\* endpoints) reflects none or all of the triples of every scan.
C5_ReaderNeverSeesPartialScan ==
    \A s \in ScanIds :
        obs.kind # "none" =>
            \/ GraphTriples(obs.quads, s) = {}
            \/ GraphTriples(obs.quads, s) = scanData[s]

\* C6: when no request is in progress, the store holds exactly as many scan
\* named graphs as ingestions were answered with success.
C6_AppendOnlyGrowth ==
    Quiescent =>
        Cardinality(ds.graphs) = Cardinality({s \in ScanIds : outcome[s] = "success"})

\* C7: every step of the running process leaves the triples of every merged
\* and of every durable scan graph as they are in the in-memory store, a
\* restart loads every durable scan graph with the triples the history file
\* holds for it, and every step leaves the triples of every durable scan
\* graph as they are in the history file.
C7_CommittedScansImmutable ==
    [][\A s \in ScanIds :
        /\ (~down /\ ~down' /\ (Merged(s) \/ Durable(s))) =>
               GraphTriples(ds'.quads, s) = GraphTriples(ds.quads, s)
        /\ (down /\ ~down' /\ Durable(s)) =>
               GraphTriples(ds'.quads, s) = GraphTriples(file.quads, s)
        /\ Durable(s) =>
               GraphTriples(file'.quads, s) = GraphTriples(file.quads, s)]_vars

\* a scan is committed with success and a later ingestion has merged
\* another named graph next to it
C7_Witness ==
    \E s1, s2 \in ScanIds :
        /\ s1 # s2
        /\ outcome[s1] = "success"
        /\ Durable(s1)
        /\ Merged(s2)
        /\ GraphTriples(ds.quads, s2) # {}

(***************************************************************************)
(* Properties of run_assessment                                            *)
(***************************************************************************)
\* the objects of subject s under predicate p in the scan graph
Objects(s, p) == {tr[3] : tr \in {x \in data_graph : x[2] = p /\ x[1] = s}}

\* the Assessment records of the scan graph
AssessmentNodes ==
    {tr[1] : tr \in {x \in data_graph :
                        x[2] = "rdf:type" /\ x[3] = <<"class", "ComplianceAssessment">>}}

\* the focus nodes of the validator's report
FocusNodes == {r.focusNode : r \in results_graph}

\* C8: every Assessment has exactly one verdict, PASS or FAIL, and it is
\* FAIL exactly when its evidence node is a focus node of a result of the
\* validator's report for the scan.
C8_VerdictCorrectness ==
    \A b \in AssessmentNodes :
        LET verdicts == Objects(b, "pact:hasVerdict")
        IN  /\ Cardinality(verdicts) = 1
            /\ verdicts \subseteq {<<"literal", "PASS">>, <<"literal", "FAIL">>}
            /\ \A ev \in Objects(b, "pact:evaluatedEvidence") :
                   (<<"literal", "FAIL">> \in verdicts) <=> (ev \in FocusNodes)

\* a finished scan with a FAIL and a PASS Assessment, whose report has a
\* result without message
C8_Witness ==
    /\ epc = "done"
    /\ \E b1, b2 \in AssessmentNodes :
        /\ <<"literal", "FAIL">> \in Objects(b1, "pact:hasVerdict")
        /\ <<"literal", "PASS">> \in Objects(b2, "pact:hasVerdict")
    /\ \E r \in results_graph : ~r.hasMessage

\* the id consists of safe characters only
AllSafeChars(value) == \A i \in 1..Len(value) : value[i] \in SafeIdChars

\* id-less events of equal content resolve to one Evidence node, within a
\* batch and across scans
SameContentSameNode == \A x, y \in seen : x[1] = y[1] => x[2] = y[2]

\* C9 as stated: id-less events of equal content resolve to the same
\* Evidence node, and an event whose id is made of safe characters only
\* resolves to the node named by that id.
C9_SafeIdVerbatim ==
    /\ SameContentSameNode
    /\ \A i \in 1..Len(evidence_tracker) :
        LET e == evidence_tracker[i].event
        IN  (HasKey(e, "id") /\ Get(e, "id") # <<>> /\ AllSafeChars(Get(e, "id")))
                => evidence_tracker[i].node = <<"evidence", Get(e, "id")>>

\* C9 amended: id-less events of equal content, whatever the order of their
\* keys, resolve to the same Evidence node in every batch and scan, and an
\* event whose id is 1 to 128 safe characters resolves to the node named by
\* that id.
C9_EvidenceIdentity ==
    /\ SameContentSameNode
    /\ \A i \in 1..Len(evidence_tracker) :
        LET e == evidence_tracker[i].event
        IN  (HasKey(e, "id") /\ IsSafeId(Get(e, "id")))
                => evidence_tracker[i].node = <<"evidence", Get(e, "id")>>

\* a batch holding the same id-less content twice, with its keys in two
\* orders, mapped to one node, after a scan that mapped an event under its
\* safe id
C9_Witness ==
    /\ epc = "done"
    /\ \E i, j \in 1..Len(evidence_tracker) :
        /\ evidence_tracker[i].event # evidence_tracker[j].event
        /\ ~HasKey(evidence_tracker[i].event, "id")
        /\ AsDict(evidence_tracker[i].event) = AsDict(evidence_tracker[j].event)
        /\ evidence_tracker[i].node = evidence_tracker[j].node
    /\ seen # {}

\* C10: with a system filter, no Assessment is emitted for an event whose
\* resolved system (explicit, or the default of its type) is not targeted.
C10_SystemFilter ==
    target_systems # {} =>
        \A a \in assessed :
            ResolvedSystemName(evidence_tracker[a[2]].event) \in target_systems

(***************************************************************************)
(* Properties of the framework filter and of the actor attribution         *)
(***************************************************************************)
\* the normalized control identifiers, as the claim describes them
NormalizedControlId(event_type) ==
    CASE event_type = "file_access"        -> <<"a", "c", "3">>
      [] event_type = "network_connection" -> <<"c", "m", "7">>
      [] event_type = "authentication"     -> <<"i", "a", "2">>
      [] event_type = "api_call"           -> <<"a", "u", "1", "2">>
      [] event_type = "config_change"      -> <<"c", "m", "3">>
      [] OTHER                             -> <<"u", "n", "k", "n", "o", "w", "n">>

\* the normalized filter strings
NormalizedFilter(tf) ==
    CASE tf = AC_3      -> <<"a", "c", "3">>
      [] tf = NIST_AC_3 -> <<"n", "i", "s", "t", "a", "c", "3">>
      [] tf = ac_3      -> <<"a", "c", "3">>
      [] tf = CM        -> <<"c", "m">>
      [] tf = SOC2      -> <<"s", "o", "c", "2">>
      [] tf = IA_2      -> <<"i", "a", "2">>
      [] tf = au12      -> <<"a", "u", "1", "2">>

\* part occurs in whole: whole is a prefix, then part, then a suffix
OccursIn(part, whole) ==
    \E i \in 0..Len(whole), j \in 1..(Len(whole) + 1) :
        whole = SubSeq(whole, 1, i) \o part \o SubSeq(whole, j, Len(whole))

\* the evidence items the assessment loop has gone through
Visited == 1..(item - 1)

\* the evidence items an Assessment was emitted for
AssessedItems == {a[2] : a \in assessed}

\* C11: under a non-empty framework filter, an evidence item gets an
\* Assessment exactly when the normalized identifier of its control contains,
\* or is contained in, the normalized form of one of the filter strings; under
\* the filter ["AC-3"] exactly the file_access evidence is assessed.
C11_FrameworkFilter ==
    (epc \in {"assess", "done"} /\ target_frameworks # <<>>) =>
        /\ \A k \in Visited :
            (k \in AssessedItems) <=>
                \E n \in 1..Len(target_frameworks) :
                    LET c == NormalizedControlId(evidence_tracker[k].type)
                        f == NormalizedFilter(target_frameworks[n])
                    IN  OccursIn(c, f) \/ OccursIn(f, c)
        /\ target_frameworks = <<AC_3>> =>
               AssessedItems = {k \in Visited : evidence_tracker[k].type = "file_access"}

\* the batch of every event type was assessed under the filter ["AC-3"] and
\* only its file_access event got an Assessment
C11_Witness ==
    /\ epc = "done"
    /\ target_frameworks = <<AC_3>>
    /\ Len(evidence_tracker) = Len(EventTypes)
    /\ Cardinality(AssessmentNodes) = 1

\* the actor the claim attributes an event to: the explicit actor name when
\* one is given, otherwise the subject field of the event type
AttributedActor(event) ==
    IF HasKey(event, "actor") /\ Get(event, "actor") # ""
    THEN Get(event, "actor")
    ELSE IF EventType(event) \in {"file_access", "authentication", "config_change"}
              /\ HasKey(event, "user")
         THEN Get(event, "user")
         ELSE ""

\* C20: for every event type, the Evidence node carries the attributed actor
\* as its only actorName, and carries no actorName when the attributed actor
\* is empty or "unknown".
C20_ActorAttribution ==
    \A k \in 1..Len(evidence_tracker) :
        LET e == evidence_tracker[k].event
            recorded == Objects(evidence_tracker[k].node, "pact:actorName")
        IN  recorded = IF AttributedActor(e) \in {"", "unknown"} THEN {}
                       ELSE {<<"literal", AttributedActor(e)>>}

(***************************************************************************)
(* Claims about the read paths of the store                                *)
(***************************************************************************)
\* C16: while a read query executes, the reader does not hold the store's
\* mutation lock, so no add_graph waits for the lock during the query.
C16_QueryRunsWithoutLock ==
    pc[Reader] = "query" => lock # Reader

(***************************************************************************)
(* Claims about startup                                                    *)
(***************************************************************************)
\* C19: a store constructed on a corrupt history file holds no triple of a
\* scan graph of that file (as long as the file is the corrupt one, the
\* graphs it names are empty in the store).
C19_CorruptHistoryIgnored ==
    (~down /\ file.exists /\ ~file.complete) =>
        \A s \in GraphsOf(file.quads) : GraphTriples(ds.quads, s) = {}

(***************************************************************************)
(* Claims about ingest_events                                              *)
(***************************************************************************)
\* the store is as it was when the request arrived, in memory and on disk
StoreUntouched == ds = before.ds /\ file = before.file

\* the request is in strict mode and one of its events fails validation
StrictAndInvalid ==
    /\ ipc # "idle"
    /\ request.validate_strict
    /\ \E k \in 1..Len(request.events) : ~validate_event(request.events[k])

\* C12: for a request in strict mode with an invalid event, run_assessment
\* and add_graph are never called, the store stays as it was in memory and on
\* disk, and the response is the error 422.
C12_StrictModeRejectsBatch ==
    StrictAndInvalid =>
        /\ calls = {}
        /\ epc = "off"
        /\ StoreUntouched
        /\ response \in {NoResponse, HTTP_422_UNPROCESSABLE_ENTITY}
        /\ ipc \in {"validate", "responded"}
        /\ event_index > Len(request.events) => ipc = "responded"

\* a strict request whose second event is the invalid one was answered 422
\* on a store that holds an earlier scan
C12_Witness ==
    /\ StrictAndInvalid
    /\ ipc = "responded"
    /\ response = HTTP_422_UNPROCESSABLE_ENTITY
    /\ valid_events # <<>>
    /\ before.ds.graphs # {}

\* C15: when the validator raises during run_assessment, add_graph is not
\* called, the store stays as it was in memory and on disk, and the response
\* is the error 500.
C15_ValidatorRaiseAbortsCommit ==
    (ipc # "idle" /\ epc = "raised") =>
        /\ "add_graph" \notin calls
        /\ StoreUntouched
        /\ response \in {NoResponse, HTTP_500_INTERNAL_SERVER_ERROR}
        /\ ipc \in {"run_assessment", "responded"}

\* the validator raised on a scan with mapped evidence and the request was
\* answered 500 on a store that holds an earlier scan
C15_Witness ==
    /\ epc = "raised"
    /\ evidence_tracker # <<>>
    /\ ipc = "responded"
    /\ response = HTTP_500_INTERNAL_SERVER_ERROR
    /\ before.ds.graphs # {}

(***************************************************************************)
(* Claims about the read endpoints and the middleware                      *)
(***************************************************************************)
\* the (PASS, FAIL) pairs of a ledger that qualify: the same file name under
\* the same control, PASS in one scan, FAIL in another scan whose timestamp is
\* strictly greater; counted holds the positions of the FAIL scans looked at
QualifyingPairs(scans, counted) ==
    {[asset |-> scans[g1].checks[k1][1],
      control |-> resolve_control_uri("file_access"),
      previous_pass |-> scans[g1].time,
      current_fail |-> scans[g2].time] :
        <<g1, k1, g2, k2>> \in
            {w \in (DOMAIN scans) \X (1..2) \X (DOMAIN scans) \X (1..2) :
                /\ w[1] # w[3]
                /\ w[2] <= Len(scans[w[1]].checks)
                /\ w[4] <= Len(scans[w[3]].checks)
                /\ scans[w[1]].checks[w[2]][2] = "PASS"
                /\ scans[w[3]].checks[w[4]][2] = "FAIL"
                /\ scans[w[1]].checks[w[2]][1] = scans[w[3]].checks[w[4]][1]
                /\ scans[w[3]].time > scans[w[1]].time
                /\ w[3] \in counted}}

\* the pairs the rows of a drift report stand for
ReportedPairs(rows) ==
    {[asset |-> r.asset[2], control |-> r.control,
      previous_pass |-> r.previous_pass, current_fail |-> r.current_fail] : r \in rows}

Unlisted(text) == \E k \in 1..Len(text) : text[k] = "\""

\* C14: in every endpoint that builds a query from request text, a text
\* outside the allow-list is answered with the invalid-filter error and is
\* not put into the query.
C14_FilterTextValidated ==
    call.endpoint \in {"threats", "timeline", "oscal", "scan_detail"} =>
        \A text \in call.texts :
            Unlisted(text) =>
                /\ reply.status = HTTP_400_BAD_REQUEST
                /\ text \notin reply.interpolated

\* the keys a request carries, at any location
CarriedKeys(req) ==
    {req.x_api_key, req.query_api_key, req.query_key, req.cookie}
        \cup (IF req.authorization # <<>> /\ req.authorization[1] = "Bearer"
              THEN {req.authorization[2]} ELSE {})

\* C18: with PACT_API_KEY configured, a request to any path without the
\* configured key is answered 401 and not passed on, and a request that
\* carries the configured key and no other is passed on.
C18_AllRoutesProtected ==
    (call.endpoint = "dispatch" /\ call.configured # "") =>
        /\ call.configured \notin CarriedKeys(call.request) =>
               reply.status = HTTP_401_UNAUTHORIZED /\ ~reply.passed
        /\ CarriedKeys(call.request) \ {""} = {call.configured} => reply.passed

\* the characters the error message of check_threat_mitigation names:
\* letters, numbers, space and -_.:/
NamedFilterChars == Letters \cup Digits \cup {" ", "-", "_", ".", ":", "/"}

\* C25: a non-empty vulnerability filter is accepted exactly when it is 1 to
\* 64 characters long and made of letters, digits, space and - _ . : / only;
\* CVE-2021-44228 is accepted, and every other filter is answered HTTP 400
\* with nothing put into a query.
C25_VulnFilterAcceptance ==
    call.endpoint = "threats" =>
        \A text \in call.texts :
            LET listed == /\ Len(text) \in 1..MaxVulnLen
                          /\ \A k \in 1..Len(text) : text[k] \in NamedFilterChars
            IN  IF listed
                THEN reply.status = HTTP_200_OK /\ reply.interpolated # {}
                ELSE reply.status = HTTP_400_BAD_REQUEST /\ reply.interpolated = {}

(***************************************************************************)
(* Claims about resolve_system_uri                                         *)
(***************************************************************************)
\* the System nodes of a graph and the labels of a node in it
SystemsIn(graph) == SubjectsOf(graph, "rdf:type", <<"class", "System">>)
LabelsIn(graph, node) == ObjectsOf(graph, node, "rdfs:label")

\* C24: two calls with the same system name (or, without a name, the same
\* event type) return the same System node, in one scan or in two; a call
\* adds the System type and the label only when the graph does not hold that
\* System yet, so a call for a System the graph holds adds no node and no
\* label.
C24_SystemResolutionIdempotent ==
    call.endpoint = "resolve" =>
        /\ ResolvedSystemName(call.events[1]) = ResolvedSystemName(call.events[2])
               => reply.nodes[1] = reply.nodes[2]
        /\ \A k \in 1..2 :
               /\ reply.nodes[k] \in SystemsIn(reply.graphs[k])
               /\ IF reply.nodes[k] \in SystemsIn(call.graphs[k])
                  THEN /\ reply.added[k] = {}
                       /\ SystemsIn(reply.graphs[k]) = SystemsIn(call.graphs[k])
                       /\ LabelsIn(reply.graphs[k], reply.nodes[k])
                              = LabelsIn(call.graphs[k], reply.nodes[k])
                  ELSE /\ SystemsIn(reply.graphs[k])
                              = SystemsIn(call.graphs[k]) \cup {reply.nodes[k]}
                       /\ LabelsIn(reply.graphs[k], reply.nodes[k])
                              = LabelsIn(call.graphs[k], reply.nodes[k])
                                  \cup {<<"literal", ResolvedSystemName(call.events[k])>>}

\* in one scan, a name is resolved to a new System and a second name that is
\* sanitized into the same identifier is resolved to that System, which
\* keeps its one label
C24_Witness ==
    /\ call.endpoint = "resolve"
    /\ call.same_scan
    /\ call.events[1] # call.events[2]
    /\ ResolvedSystemName(call.events[1]) # ResolvedSystemName(call.events[2])
    /\ reply.nodes[1] = reply.nodes[2]
    /\ reply.added[1] # {}
    /\ reply.added[2] = {}
    /\ Cardinality(LabelsIn(reply.graphs[2], reply.nodes[2])) = 1

(***************************************************************************)
(* Durability                                                              *)
(***************************************************************************)
\* an add_graph call is between its first statement and its return
AddGraphInProgress ==
    \E t \in Threads : pc[t] \in {"merging", "save", "serialize", "move", "except"}

\* the scans of a set of quads, each with its triples
ScansOf(quads) == [s \in ScanIds |-> GraphTriples(quads, s)]

generated_at(scan) == utcnow({s \in ScanIds : s < scan})

\* C27: the ledger is time-ordered: when add_graph has returned for scan B,
\* every committed scan A that was merged before B (it was in the durable
\* file when the merge of B began) has a generatedAt not later than that of
\* B, under any interleaving of concurrent ingestions.
C27_LedgerTimeOrdered ==
    \A t \in Threads :
        pc[t] = "returned" =>
            \A A \in GraphsOf(IF fileAtMerge[t].exists THEN fileAtMerge[t].quads ELSE {}) :
                outcome[A] = "success" => generated_at(A) <= generated_at(scan_uri[t])

(***************************************************************************)
(* Shape of the assessment records                                         *)
(***************************************************************************)
\* the assessment records of a graph
AssessmentsIn(graph) ==
    SubjectsOf(graph, "rdf:type", <<"class", "ComplianceAssessment">>)

\* the properties every assessment record has once
RecordProperties == {"pact:evaluatedEvidence", "pact:validatesControl", "pact:hasVerdict"}

\* C23: every ComplianceAssessment lies in exactly one scan named graph and
\* has exactly one evaluatedEvidence, one validatesControl and one
\* hasVerdict, also for events of a type without control and for events
\* that share an event id.
C23_AssessmentWellFormed ==
    /\ \A a \in {x[1] : x \in assessed} :
          /\ a \in AssessmentsIn(data_graph)
          /\ \A p \in RecordProperties : Cardinality(ObjectsOf(data_graph, a, p)) = 1
    /\ AssessmentsIn(data_graph) = {x[1] : x \in assessed}
    /\ "add_graph" \in calls =>
          /\ scan_uri[Worker] # DefaultGraph
          /\ scan_uri[Worker] \notin GraphsOf(before.ds.quads)
          /\ ds.quads \ before.ds.quads = {<<scan_uri[Worker], tr>> : tr \in data_graph}

\* a stored scan of two events under one event id, one of them of a type
\* without control, in a store that held other scans
C23_Witness ==
    /\ "add_graph" \in calls
    /\ response = HTTP_200_OK
    /\ before.ds.graphs # {}
    /\ Len(evidence_tracker) = 2
    /\ evidence_tracker[1].id = evidence_tracker[2].id
    /\ evidence_tracker[1].type # evidence_tracker[2].type
    /\ Cardinality(AssessmentsIn(GraphTriples(ds.quads, scan_uri[Worker]))) = 2

(***************************************************************************)
(* Violation messages and verdicts                                         *)
(***************************************************************************)
\* the verdicts of the records of a graph that evaluate this evidence node
VerdictsOf(graph, node) ==
    UNION {ObjectsOf(graph, a, "pact:hasVerdict") :
              a \in SubjectsOf(graph, "pact:evaluatedEvidence", node)}

\* the node carries a violation message in the graph
HasMessage(graph, node) == ObjectsOf(graph, node, "pact:violationMessage") # {}

\* C30: in every scan graph an Evidence node that carries a
\* violationMessage has verdict FAIL in every assessment of the scan that
\* evaluates it, and no evidence assessed PASS carries a violation message.
C30_MessageImpliesFail ==
    \A k \in DOMAIN evidence_tracker :
        LET node == evidence_tracker[k].node
        IN  /\ HasMessage(data_graph, node) =>
                  VerdictsOf(data_graph, node) \subseteq {<<"literal", "FAIL">>}
            /\ <<"literal", "PASS">> \in VerdictsOf(data_graph, node) =>
                  ~HasMessage(data_graph, node)

\* a returned scan with an evidence node that carries a message and is
\* assessed FAIL, and one without a message that is assessed PASS
C30_Witness ==
    /\ epc = "done"
    /\ Len(evidence_tracker) >= 2
    /\ \E k \in DOMAIN evidence_tracker :
          /\ HasMessage(data_graph, evidence_tracker[k].node)
          /\ VerdictsOf(data_graph, evidence_tracker[k].node) = {<<"literal", "FAIL">>}
    /\ \E k \in DOMAIN evidence_tracker :
          /\ ~HasMessage(data_graph, evidence_tracker[k].node)
          /\ VerdictsOf(data_graph, evidence_tracker[k].node) = {<<"literal", "PASS">>}

(***************************************************************************)
(* Verdicts and the ledger                                                 *)
(***************************************************************************)
\* the (evidence, control, verdict) records of a graph
RecordsOf(graph) ==
    UNION {ObjectsOf(graph, a, "pact:evaluatedEvidence")
              \X ObjectsOf(graph, a, "pact:validatesControl")
              \X ObjectsOf(graph, a, "pact:hasVerdict") : a \in AssessmentsIn(graph)}

\* the graph the batch gives the validator, from the context and the events
BatchGraph(events) ==
    ContextGraph \cup UNION {map_event_to_rdf(ContextGraph, events[k]) : k \in DOMAIN events}

\* the records of the batch under a report of the validator
BatchRecords(events, report) ==
    {<<EvidenceNode(events[k]), resolve_control_uri(EventType(events[k])),
       <<"literal", IF \E r \in report : r.focusNode = EvidenceNode(events[k])
                    THEN "FAIL" ELSE "PASS">>>> : k \in DOMAIN events}

\* C29: verdicts do not depend on the ledger: from the first step of
\* run_assessment to its return the store and the durable file are what
\* they were when the request arrived, the graph handed to the validator is
\* a function of the context and the batch, and the records returned are a
\* function of the batch and the report of the validator, whatever scans
\* the store holds.
C29_VerdictsIndependentOfLedger ==
    /\ ipc = "run_assessment" => (ds = before.ds /\ file = before.file)
    /\ (epc = "map" /\ idx > Len(event_stream)) => data_graph = BatchGraph(valid_events)
    /\ epc = "done" => RecordsOf(data_graph) = BatchRecords(valid_events, results_graph)

\* run_assessment has returned a FAIL and a PASS record on a store that
\* holds earlier scans, before the graph is stored
C29_Witness ==
    /\ ipc = "run_assessment"
    /\ epc = "done"
    /\ before.ds.graphs # {}
    /\ \E x \in RecordsOf(data_graph), y \in RecordsOf(data_graph) :
          x[3] = <<"literal", "FAIL">> /\ y[3] = <<"literal", "PASS">>

(***************************************************************************)
(* Scan-wide timestamp and scan id                                         *)
(***************************************************************************)
\* the assessment records of a graph with this verdict on this file name and
\* control at this time
ChecksIn(graph, verdict, row, time) ==
    {a \in SubjectsOf(graph, "pact:hasVerdict", <<"literal", verdict>>) :
        /\ row.control \in ObjectsOf(graph, a, "pact:validatesControl")
        /\ <<"dateTime", time>> \in ObjectsOf(graph, a, "pact:generatedAt")
        /\ \E e \in ObjectsOf(graph, a, "pact:evaluatedEvidence") :
              row.asset \in ObjectsOf(graph, e, "uco:fileName")}

\* C26: all the assessment records of one scan carry the same generatedAt
\* timestamp and the scanId of their graph, so the PASS and the FAIL of
\* every pair get_drift reports lie in two different named graphs.
C26_ScanWideTimestamp ==
    call.endpoint = "drift" =>
        LET graphs == NamedGraphs(call.scans)
        IN  /\ \A g \in DOMAIN graphs :
                /\ Cardinality(UNION {ObjectsOf(graphs[g], a, "pact:generatedAt") :
                                         a \in AssessmentsIn(graphs[g])}) <= 1
                /\ \A a \in AssessmentsIn(graphs[g]) :
                      /\ Cardinality(ObjectsOf(graphs[g], a, "pact:generatedAt")) = 1
                      /\ ObjectsOf(graphs[g], a, "pact:scanId") = {<<"literal", g>>}
            /\ \A row \in reply.rows :
                /\ \E g1 \in DOMAIN graphs, g2 \in DOMAIN graphs :
                      /\ g1 # g2
                      /\ ChecksIn(graphs[g1], "PASS", row, row.previous_pass) # {}
                      /\ ChecksIn(graphs[g2], "FAIL", row, row.current_fail) # {}
                /\ \A g \in DOMAIN graphs :
                      \/ ChecksIn(graphs[g], "PASS", row, row.previous_pass) = {}
                      \/ ChecksIn(graphs[g], "FAIL", row, row.current_fail) = {}

\* a ledger whose first scan holds a PASS and a FAIL of a.txt, and a drift
\* report with a pair of that PASS and the FAIL of a later scan
C26_Witness ==
    /\ call.endpoint = "drift"
    /\ Len(call.scans) = 2
    /\ call.scans[1].checks = <<<<"a.txt", "PASS">>, <<"a.txt", "FAIL">>>>
    /\ Cardinality(AssessmentsIn(NamedGraphs(call.scans)[1])) = 2
    /\ \E row \in reply.rows :
          /\ row.previous_pass = call.scans[1].time
          /\ row.current_fail = call.scans[2].time

(***************************************************************************)
(* Blast radius                                                            *)
(***************************************************************************)
\* the links of the failing evidence of a ledger whose system supports a
\* business process
FailingEvidenceLinks(ledger) ==
    {<<"splunk", EventId(AnalyticsEvent(ledger[w[1]].checks[w[2]], w[1], w[2]))>> :
        w \in {x \in (1..Len(ledger)) \X (1..(DEFAULT_BLAST_LIMIT + 1)) :
                  /\ x[2] <= Len(ledger[x[1]].checks)
                  /\ ledger[x[1]].checks[x[2]].verdict = "FAIL"
                  /\ ObjectsOf(SystemContext,
                               SystemNode(ledger[x[1]].checks[x[2]].system),
                               "pact:supports") # {}}}

\* C21: over any ledger the report of get_blast_radius has rows only for
\* the failing evidence whose system supports a business process, one for
\* each of them as long as they are no more than DEFAULT_BLAST_LIMIT and
\* DEFAULT_BLAST_LIMIT rows otherwise, the most recent first
C21_BlastRadius ==
    call.endpoint = "blast_radius" =>
        LET rows == reply.rows
            expected == FailingEvidenceLinks(call.scans)
        IN  /\ \A k \in DOMAIN rows : rows[k].link \in expected
            /\ \A j, k \in DOMAIN rows : j # k => rows[j].link # rows[k].link
            /\ \A j, k \in DOMAIN rows : j < k => rows[j].timestamp >= rows[k].timestamp
            /\ Len(rows) <= DEFAULT_BLAST_LIMIT
            /\ Len(rows) = (IF Cardinality(expected) <= DEFAULT_BLAST_LIMIT
                            THEN Cardinality(expected) ELSE DEFAULT_BLAST_LIMIT)

(***************************************************************************)
(* Threat correlation                                                      *)
(***************************************************************************)
\* the verdicts of the most recent assessments of a ledger that validate
\* the control named by the label
MostRecentVerdicts(ledger, label) ==
    LET validating ==
            {x \in (1..Len(ledger)) \X (1..(DEFAULT_BLAST_LIMIT + 1)) :
                /\ x[2] <= Len(ledger[x[1]].checks)
                /\ EVENT_CONTROL_MAP[ledger[x[1]].checks[x[2]].type] = label}
    IN  {ledger[x[1]].checks[x[2]].verdict :
            x \in {y \in validating :
                     \A z \in validating : ledger[z[1]].time <= ledger[y[1]].time}}

\* C22: the status check_threat_mitigation reports for a vulnerability and
\* the control that mitigates it is the verdict of the most recent
\* assessment of the ledger that validates the control
C22_ThreatStatusMostRecent ==
    (call.endpoint = "threats" /\ reply.status = HTTP_200_OK) =>
        \A k \in DOMAIN reply.rows :
            reply.rows[k].status
                \in MostRecentVerdicts(call.scans, reply.rows[k].mitigating_control)

====
